---- MODULE Spec2Model ----
(***************************************************************************)
(* Cumulative snowfall tracker: the data-processor functions, the chart    *)
(* manager (datasets, colours, highlight state) and the application        *)
(* orchestration, as state machines over small season sets.                *)
(*                                                                         *)
(* JavaScript arrays are sequences; dataset indices are 0-based as in the  *)
(* source, so dataset index i is element i+1 of the sequence.              *)
(***************************************************************************)
EXTENDS Integers, Sequences, FiniteSets, TLC

VARIABLES
    appState,        \* app.js: {allSeasons, filteredSeasons, chart, isLoaded}; chart is hasChart
    chart,           \* the Chart.js instance: datasets and the axis limits
    highlightState,  \* chart-manager.js: {highlightedDatasetIndex, isToggled}
    lastOp,          \* history: the handler that ran last, its arguments, the state it started from
    lastRange,       \* history: arguments of the last onSliderChange that was not ignored
    call,            \* a pure function applied to an input: [fn, arg, a, b, ret]
    sliderState,     \* slider-controller.js: sliderState and the closure of setupSliderEvents
    page             \* the document: display of #loading and #app-content, the error shown

vars == <<appState, chart, highlightState, lastOp, lastRange, call, sliderState, page>>

-----------------------------------------------------------------------------
(* Bounds of the model *)

YearLo == 2021
YearHi == 2023
MaxSeasons == 2
MaxRecords == 2
MaxLen == 3
MaxDepth == 3

Years == YearLo..YearHi
RangeYears == (YearLo - 1)..YearHi

-----------------------------------------------------------------------------
(* Generic helpers *)

Max(a, b) == IF a >= b THEN a ELSE b
Min(a, b) == IF a <= b THEN a ELSE b

\* Math.ceil(n / d) for n >= 0, d > 0
CeilDiv(n, d) == (n + d - 1) \div d

RECURSIVE GCD(_, _)
GCD(a, b) == IF b = 0 THEN a ELSE GCD(b, a % b)

\* a rational number in lowest terms
Rat(n, d) == LET g == GCD(n, d) IN [num |-> n \div g, den |-> d \div g]
RatLess(p, q) == p.num * q.den < q.num * p.den

\* all sequences over S of length at most n
SeqsUpTo(S, n) == UNION {[1..k -> S] : k \in 0..n}

\* null (highlightedDatasetIndex)
Null == -1

-----------------------------------------------------------------------------
(* data-processor.js *)

\* A JavaScript value passed where an array is expected
Arr(s) == [isArray |-> TRUE, items |-> s]
NotArr == [isArray |-> FALSE, items |-> << >>]

\* v || 0
OrZero(v) == IF v = 0 THEN 0 ELSE v

calculateDailySnowfall_noClamp(depths) ==
    IF ~depths.isArray \/ Len(depths.items) = 0 THEN << >>
    ELSE LET d == depths.items
         IN [i \in 1..Len(d) |->
                IF i = 1 THEN Max(0, OrZero(d[1]))
                ELSE OrZero(d[i]) - OrZero(d[i - 1])]

\* data-processor.js: day 0 is the depth itself
calculateDailySnowfall(depths) ==
    IF ~depths.isArray \/ Len(depths.items) = 0 THEN << >>
    ELSE LET d == depths.items
         IN [i \in 1..Len(d) |->
                IF i = 1 THEN Max(0, OrZero(d[1]))
                ELSE Max(0, OrZero(d[i]) - OrZero(d[i - 1]))]

\* snowfall-calculations.js: day 0 is 0
calculateDailySnowfall_calc(depths) ==
    IF ~depths.isArray \/ Len(depths.items) = 0 THEN << >>
    ELSE LET d == depths.items
         IN [i \in 1..Len(d) |->
                IF i = 1 THEN 0
                ELSE Max(0, d[i] - d[i - 1])]

\* fetch-snotel-data.js: the result starts as [0] whatever the input is
calculateDailySnowfall_snotel(depths) ==
    LET d == depths.items
    IN [i \in 1..Max(1, Len(d)) |->
           IF i = 1 THEN 0
           ELSE Max(0, d[i] - d[i - 1])]

\* the loop of calculateCumulative: push the running total after each value
RECURSIVE RunningTotals(_, _)
RunningTotals(values, sum) ==
    IF values = << >> THEN << >>
    ELSE LET next == sum + Head(values)
         IN <<next>> \o RunningTotals(Tail(values), next)

calculateCumulative_noCarry(dailyValues) ==
    IF ~dailyValues.isArray \/ Len(dailyValues.items) = 0 THEN << >>
    ELSE [i \in 1..Len(dailyValues.items) |-> OrZero(dailyValues.items[i])]

\* data-processor.js
calculateCumulative(dailyValues) ==
    IF ~dailyValues.isArray \/ Len(dailyValues.items) = 0 THEN << >>
    ELSE RunningTotals([i \in 1..Len(dailyValues.items) |-> OrZero(dailyValues.items[i])], 0)

\* snowfall-calculations.js
calculateCumulative_calc(dailyValues) ==
    IF ~dailyValues.isArray \/ Len(dailyValues.items) = 0 THEN << >>
    ELSE RunningTotals(dailyValues.items, 0)

\* fetch-snotel-data.js
calculateCumulative_snotel(dailyValues) == RunningTotals(dailyValues.items, 0)

\* seasons.filter(season => year >= startYear && year <= endYear), element by element
RECURSIVE FilterItems_exclusiveEnd(_, _, _)
FilterItems_exclusiveEnd(items, startYear, endYear) ==
    IF items = << >> THEN << >>
    ELSE LET year == Head(items).startYear
             rest == FilterItems_exclusiveEnd(Tail(items), startYear, endYear)
         IN IF year >= startYear /\ year < endYear THEN <<Head(items)>> \o rest ELSE rest

RECURSIVE FilterItems(_, _, _)
FilterItems(items, startYear, endYear) ==
    IF items = << >> THEN << >>
    ELSE LET year == Head(items).startYear
             rest == FilterItems(Tail(items), startYear, endYear)
         IN IF year >= startYear /\ year <= endYear THEN <<Head(items)>> \o rest ELSE rest

\* filterSeasonsByRange that puts a reversed pair of years in order
filterSeasonsByRange_swap(seasons, startYear, endYear) ==
    IF ~seasons.isArray THEN << >>
    ELSE FilterItems(seasons.items, Min(startYear, endYear), Max(startYear, endYear))

filterSeasonsByRange(seasons, startYear, endYear) ==
    IF ~seasons.isArray THEN << >>
    ELSE FilterItems(seasons.items, startYear, endYear)

\* Infinity, -Infinity and finite numbers
PosInf == [inf |-> 1, v |-> 0]
NegInf == [inf |-> -1, v |-> 0]
Fin(n) == [inf |-> 0, v |-> n]
ExtLess(x, y) ==
    IF x.inf # y.inf THEN x.inf < y.inf
    ELSE x.inf = 0 /\ x.v < y.v

BoundsRecord_anyDay(acc, record) ==
    [minDayOfSeason |->
        IF ExtLess(Fin(record.dayOfSeason), acc.minDayOfSeason)
        THEN Fin(record.dayOfSeason) ELSE acc.minDayOfSeason,
     maxDayOfSeason |->
        IF ExtLess(acc.maxDayOfSeason, Fin(record.dayOfSeason))
        THEN Fin(record.dayOfSeason) ELSE acc.maxDayOfSeason,
     maxCumulative |->
        IF record.cumulativeSnowfall > acc.maxCumulative
        THEN record.cumulativeSnowfall ELSE acc.maxCumulative]

\* the body of season.dailyData.forEach
BoundsRecord(acc, record) ==
    [minDayOfSeason |->
        IF record.dailySnowfall > 0 /\ ExtLess(Fin(record.dayOfSeason), acc.minDayOfSeason)
        THEN Fin(record.dayOfSeason) ELSE acc.minDayOfSeason,
     maxDayOfSeason |->
        IF record.dailySnowfall > 0 /\ ExtLess(acc.maxDayOfSeason, Fin(record.dayOfSeason))
        THEN Fin(record.dayOfSeason) ELSE acc.maxDayOfSeason,
     maxCumulative |->
        IF record.cumulativeSnowfall > acc.maxCumulative
        THEN record.cumulativeSnowfall ELSE acc.maxCumulative]

RECURSIVE BoundsRecords(_, _)
BoundsRecords(acc, records) ==
    IF records = << >> THEN acc
    ELSE BoundsRecords(BoundsRecord(acc, Head(records)), Tail(records))

\* the body of seasons.forEach
RECURSIVE BoundsSeasons(_, _)
BoundsSeasons(acc, seasons) ==
    IF seasons = << >> THEN acc
    ELSE LET season == Head(seasons)
         IN IF ~season.hasDailyData
            THEN BoundsSeasons(acc, Tail(seasons))
            ELSE BoundsSeasons(BoundsRecords(acc, season.dailyData), Tail(seasons))

DefaultBounds == [minDayOfSeason |-> 0, maxDayOfSeason |-> 365, maxCumulative |-> 0]

getAxisBounds_firstSeasonOnly(seasons) ==
    IF ~seasons.isArray \/ Len(seasons.items) = 0 THEN DefaultBounds
    ELSE LET acc == BoundsSeasons([minDayOfSeason |-> PosInf, maxDayOfSeason |-> NegInf,
                                   maxCumulative |-> 0], <<Head(seasons.items)>>)
         IN [minDayOfSeason |-> IF acc.minDayOfSeason = PosInf THEN 0 ELSE acc.minDayOfSeason.v,
             maxDayOfSeason |-> IF acc.maxDayOfSeason = NegInf THEN 365 ELSE acc.maxDayOfSeason.v,
             maxCumulative |-> acc.maxCumulative]

getAxisBounds(seasons) ==
    IF ~seasons.isArray \/ Len(seasons.items) = 0 THEN DefaultBounds
    ELSE LET acc == BoundsSeasons([minDayOfSeason |-> PosInf, maxDayOfSeason |-> NegInf,
                                   maxCumulative |-> 0], seasons.items)
         IN [minDayOfSeason |-> IF acc.minDayOfSeason = PosInf THEN 0 ELSE acc.minDayOfSeason.v,
             maxDayOfSeason |-> IF acc.maxDayOfSeason = NegInf THEN 365 ELSE acc.maxDayOfSeason.v,
             maxCumulative |-> acc.maxCumulative]

-----------------------------------------------------------------------------
(* chart-manager.js: colours and labels *)

\* '#1a365d' as its six hexadecimal digits
DarkBlueHex == [fmt |-> "hex", digits |-> <<1, 10, 3, 6, 5, 13>>]

\* `hsl(210, 70%, ${lightness}%)`; lightness is a rational number
Hsl(lightness) == [fmt |-> "hsl", h |-> 210, s |-> 70, l |-> lightness]

\* lightness = 25 + (seasonIndex / (totalSeasons - 1)) * (65 - 25)
getSeasonColor_reversed(seasonIndex, totalSeasons) ==
    IF totalSeasons <= 1 THEN DarkBlueHex
    ELSE Hsl(Rat(65 * (totalSeasons - 1) - seasonIndex * (65 - 25), totalSeasons - 1))

getSeasonColor(seasonIndex, totalSeasons) ==
    IF totalSeasons <= 1 THEN DarkBlueHex
    ELSE Hsl(Rat(25 * (totalSeasons - 1) + seasonIndex * (65 - 25), totalSeasons - 1))

\* parseInt(originalColor.slice(k, k + 2), 16)
ParseHexPair(digits, k) == 16 * digits[k] + digits[k + 1]

\* the colour highlightSeries gives a series that is not the highlighted one
DimColor(originalColor) ==
    IF originalColor.fmt = "hsl"
    THEN [fmt |-> "hsla", h |-> originalColor.h, s |-> originalColor.s,
          l |-> originalColor.l, alpha |-> Rat(3, 10)]
    ELSE IF originalColor.fmt = "hex"
    THEN [fmt |-> "rgba", r |-> ParseHexPair(originalColor.digits, 1),
          g |-> ParseHexPair(originalColor.digits, 3),
          b |-> ParseHexPair(originalColor.digits, 5), alpha |-> Rat(3, 10)]
    ELSE originalColor

\* A JavaScript value handed to formatSeasonLabel. A finite number is
\* v + tenths / 10 with v >= 0; NaN and the infinities are numbers of
\* another kind; strings, null and undefined have another typeof.
Num(n) == [type |-> "number", kind |-> "finite", v |-> n, tenths |-> 0]
Fraction(n, t) == [type |-> "number", kind |-> "finite", v |-> n, tenths |-> t]
Special(kind) == [type |-> "number", kind |-> kind, v |-> 0, tenths |-> 0]
NonNumber(type) == [type |-> type, kind |-> "none", v |-> 0, tenths |-> 0]

DigitChar == <<"0", "1", "2", "3", "4", "5", "6", "7", "8", "9">>

\* String(n) for an integer n >= 0, one character per element
RECURSIVE DecimalString(_)
DecimalString(n) ==
    IF n < 10 THEN <<DigitChar[n + 1]>>
    ELSE DecimalString(n \div 10) \o <<DigitChar[(n % 10) + 1]>>

\* str.slice(-2)
LastTwo(str) == IF Len(str) <= 2 THEN str ELSE SubSeq(str, Len(str) - 1, Len(str))

InvalidLabel == <<"I", "n", "v", "a", "l", "i", "d">>

\* String(x) for the finite number v + tenths / 10
FiniteString(v, tenths) ==
    DecimalString(v) \o (IF tenths = 0 THEN << >> ELSE <<".", DigitChar[tenths + 1]>>)

formatSeasonLabel_noPad(startYear) ==
    IF \/ startYear.type # "number"
       \/ startYear.kind = "nan"
       \/ startYear.kind # "finite"
       \/ startYear.v < 1000
       \/ startYear.v > 9999 \/ (startYear.v = 9999 /\ startYear.tenths > 0)
    THEN InvalidLabel
    ELSE FiniteString(startYear.v, startYear.tenths) \o <<"-">>
         \o DecimalString((startYear.v + 1) % 100)

\* typeof, isNaN, isFinite and the two range tests, then the template string
formatSeasonLabel(startYear) ==
    IF \/ startYear.type # "number"
       \/ startYear.kind = "nan"
       \/ startYear.kind # "finite"
       \/ startYear.v < 1000
       \/ startYear.v > 9999 \/ (startYear.v = 9999 /\ startYear.tenths > 0)
    THEN InvalidLabel
    ELSE FiniteString(startYear.v, startYear.tenths) \o <<"-">>
         \o LastTwo(FiniteString(startYear.v + 1, startYear.tenths))

-----------------------------------------------------------------------------
(* chart-manager.js: datasets and axis limits *)

\* season.dailyData.map(record => ({x, y})), replaced by the two end points
\* when there is no data or every y is 0
SeasonPoints(season) ==
    LET data == [k \in 1..Len(season.dailyData) |->
                    [x |-> season.dailyData[k].dayOfSeason,
                     y |-> season.dailyData[k].cumulativeSnowfall]]
    IN IF Len(data) = 0 \/ \A k \in 1..Len(data) : data[k].y = 0
       THEN <<[x |-> 0, y |-> 0], [x |-> 365, y |-> 0]>>
       ELSE data

\* seasons.map((season, index) => ({label, data, borderColor, ...}))
SeasonDatasets(seasons) ==
    [k \in 1..Len(seasons) |->
        [label |-> formatSeasonLabel(Num(seasons[k].startYear)),
         data |-> SeasonPoints(seasons[k]),
         borderColor |-> getSeasonColor(k - 1, Len(seasons)),
         backgroundColor |-> getSeasonColor(k - 1, Len(seasons)),
         borderWidth |-> 2]]

\* The whole numbers below 400 whose product with 1.1, rounded to an IEEE-754
\* double, lies above the exact product 11m/10 (50 * 1.1 is
\* 55.00000000000001): Math.ceil of it is one more than the exact ceiling.
\* For every other number with at most one decimal the two ceilings agree.
ProductsRoundedUp ==
    {50, 90, 100, 110, 170, 180, 190, 200, 210, 220, 230,
     330, 340, 350, 360, 370, 380, 390}

\* Math.ceil(maxCumulative * 1.1), for maxCumulative below 400
CeilTenPercent(maxCumulative) ==
    CeilDiv(maxCumulative * 11, 10) + (IF maxCumulative \in ProductsRoundedUp THEN 1 ELSE 0)

\* the scales without the limits 0 and 365 of the season
AxisLimits_unclamped(bounds) ==
    [xMin |-> bounds.minDayOfSeason - 10,
     xMax |-> bounds.maxDayOfSeason + 10,
     yMax |-> Max(10, CeilTenPercent(bounds.maxCumulative))]

\* the scales written by initChart and updateChart
AxisLimits(bounds) ==
    [xMin |-> Max(0, bounds.minDayOfSeason - 10),
     xMax |-> Min(365, bounds.maxDayOfSeason + 10),
     yMax |-> Max(10, CeilTenPercent(bounds.maxCumulative))]

NoChart == [datasets |-> << >>, scales |-> [xMin |-> 0, xMax |-> 0, yMax |-> 0]]

initChart(seasons) ==
    [datasets |-> SeasonDatasets(seasons),
     scales |-> AxisLimits(getAxisBounds(Arr(seasons)))]

NoHighlight == [highlightedDatasetIndex |-> Null, isToggled |-> FALSE]

highlightSeries_noDim(datasets, datasetIndex) ==
    [k \in 1..Len(datasets) |->
        IF k - 1 = datasetIndex
        THEN [datasets[k] EXCEPT !.borderWidth = 4,
                                 !.borderColor = getSeasonColor(k - 1, Len(datasets))]
        ELSE [datasets[k] EXCEPT !.borderWidth = 2,
                                 !.borderColor = getSeasonColor(k - 1, Len(datasets))]]

\* the datasets after highlightSeries(chart, datasetIndex)
highlightSeries(datasets, datasetIndex) ==
    [k \in 1..Len(datasets) |->
        IF k - 1 = datasetIndex
        THEN [datasets[k] EXCEPT !.borderWidth = 4,
                                 !.borderColor = getSeasonColor(k - 1, Len(datasets))]
        ELSE [datasets[k] EXCEPT !.borderWidth = 2,
                                 !.borderColor = DimColor(getSeasonColor(k - 1, Len(datasets)))]]

\* the datasets after clearHighlight(chart)
clearHighlight(datasets) ==
    [k \in 1..Len(datasets) |->
        [datasets[k] EXCEPT !.borderWidth = 2,
                            !.borderColor = getSeasonColor(k - 1, Len(datasets))]]

updateChart_noClear(state, seasons) ==
    [chart |-> [datasets |-> SeasonDatasets(seasons),
                scales |-> AxisLimits(getAxisBounds(Arr(seasons)))],
     state |-> state]

\* the chart and highlightState after updateChart(chart, seasons) with a chart
\* and a season list: new datasets, new scales, then clearHighlight(chart)
updateChart(state, seasons) ==
    [chart |-> [datasets |-> clearHighlight(SeasonDatasets(seasons)),
                scales |-> AxisLimits(getAxisBounds(Arr(seasons)))],
     state |-> NoHighlight]

toggleHighlight_hoverStyle(state, datasets, datasetIndex) ==
    [state |-> state, datasets |-> highlightSeries(datasets, datasetIndex)]

\* highlightState and the datasets after toggleHighlight(chart, datasetIndex)
toggleHighlight(state, datasets, datasetIndex) ==
    IF state.highlightedDatasetIndex = datasetIndex /\ state.isToggled
    THEN [state |-> NoHighlight, datasets |-> clearHighlight(datasets)]
    ELSE [state |-> [highlightedDatasetIndex |-> datasetIndex, isToggled |-> TRUE],
          datasets |-> highlightSeries(datasets, datasetIndex)]

-----------------------------------------------------------------------------
(* The data the application can load: seasons in ascending startYear order,  *)
(* unique by startYear, each with chronologically ordered records whose      *)
(* cumulativeSnowfall is the running sum of dailySnowfall.                   *)

Rec(day, daily, cumulative) ==
    [dayOfSeason |-> day, dailySnowfall |-> daily, cumulativeSnowfall |-> cumulative]

\* what a season starting in the given year can hold: nothing, a day without
\* snow, or two snow days that differ from year to year
DailyCatalog(year) ==
    LET k == year - YearLo
    IN { << >>,
         <<Rec(120, 0, 0)>>,
         <<Rec(90 + 20 * k, 5 + k, 5 + k), Rec(91 + 20 * k, 0, 5 + k),
           Rec(200 + 20 * k, 7, 12 + k)>> }

Season(year, dailyData) ==
    [startYear |-> year, hasDailyData |-> TRUE, dailyData |-> dailyData]

\* the years of a set in ascending order
RECURSIVE AscendingYears(_)
AscendingYears(S) ==
    IF S = {} THEN << >>
    ELSE LET lo == CHOOSE y \in S : \A z \in S : y <= z
         IN <<lo>> \o AscendingYears(S \ {lo})

\* the choices of one dailyData per year of S
DataChoices(S) ==
    {f \in [S -> UNION {DailyCatalog(y) : y \in S}] : \A y \in S : f[y] \in DailyCatalog(y)}

LoadableSeasonLists ==
    UNION { LET ys == AscendingYears(S)
            IN {[k \in 1..Len(ys) |-> Season(ys[k], f[ys[k]])] : f \in DataChoices(S)}
          : S \in SUBSET Years }

-----------------------------------------------------------------------------
(* slider-controller.js *)

\* The module's state before initSlider, with the two variables that
\* setupSliderEvents closes over (isDragging, currentHandle; "none" is null).
\* onChange and container are recorded as set (TRUE) or null (FALSE).
SliderStart ==
    [minYear |-> 1990, maxYear |-> 2024, currentStart |-> 1990, currentEnd |-> 2024,
     onChange |-> FALSE, container |-> FALSE, isDragging |-> FALSE, currentHandle |-> "none"]

\* Every slider operation yields the state it leaves and the (start, end)
\* pairs it passed to onChange, in order.
SliderResult(state, calls) == [state |-> state, calls |-> calls]

\* sliderState.onChange(start, end), when a callback is stored
OnChangeCalls(state, start, end) == IF state.onChange THEN <<<<start, end>>>> ELSE << >>

\* initSlider keeping the range of the previous state
initSlider_keepRange(state, minYear, maxYear) ==
    SliderResult([state EXCEPT !.minYear = minYear, !.maxYear = maxYear,
                               !.onChange = TRUE, !.container = TRUE,
                               !.isDragging = FALSE, !.currentHandle = "none"],
                 << >>)

\* initSlider when the container element exists: stores the bounds, puts both
\* handles on them, installs the listeners; it makes no call to onChange
initSlider(state, minYear, maxYear) ==
    SliderResult([state EXCEPT !.minYear = minYear, !.maxYear = maxYear,
                               !.currentStart = minYear, !.currentEnd = maxYear,
                               !.onChange = TRUE, !.container = TRUE,
                               !.isDragging = FALSE, !.currentHandle = "none"],
                 << >>)

getSliderRange(state) == [start |-> state.currentStart, end |-> state.currentEnd]

\* setSliderRange that stays silent when the range does not change
setSliderRange_quietWhenSame(state, start, end) ==
    IF \/ start < state.minYear \/ start > state.maxYear
       \/ end < state.minYear \/ end > state.maxYear
       \/ start > end
    THEN SliderResult(state, << >>)
    ELSE SliderResult([state EXCEPT !.currentStart = start, !.currentEnd = end],
                      IF start = state.currentStart /\ end = state.currentEnd
                      THEN << >> ELSE OnChangeCalls(state, start, end))

\* setSliderRange that swaps a reversed pair instead of rejecting it
setSliderRange_swap(state, start, end) ==
    IF \/ start < state.minYear \/ start > state.maxYear
       \/ end < state.minYear \/ end > state.maxYear
    THEN SliderResult(state, << >>)
    ELSE LET lo == Min(start, end)
             hi == Max(start, end)
         IN SliderResult([state EXCEPT !.currentStart = lo, !.currentEnd = hi],
                         OnChangeCalls(state, lo, hi))

setSliderRange(state, start, end) ==
    IF \/ start < state.minYear \/ start > state.maxYear
       \/ end < state.minYear \/ end > state.maxYear
       \/ start > end
    THEN SliderResult(state, << >>)
    ELSE SliderResult([state EXCEPT !.currentStart = start, !.currentEnd = end],
                      OnChangeCalls(state, start, end))

\* The track: trackRect.width in units of half a handle's width.  A handle
\* is centred on its position (translate(-50%)), so the handle at either end
\* of the track overhangs it by one unit, and a click on a handle bubbles to
\* the track's click listener.
TrackWidth == 4
HandleOverhang == 1
PointerPositions == (0 - HandleOverhang)..(TrackWidth + HandleOverhang)

\* Math.round(minYear + (x / TrackWidth) * (maxYear - minYear)); Math.round
\* rounds halves upwards
YearAt(state, x) ==
    (2 * (state.minYear * TrackWidth + x * (state.maxYear - state.minYear)) + TrackWidth)
        \div (2 * TrackWidth)

\* Math.max(0, Math.min(1, x / TrackWidth)), as a position on the track
ClampToTrack(x) == Max(0, Min(TrackWidth, x))

startDrag(state, handle) ==
    SliderResult([state EXCEPT !.isDragging = TRUE, !.currentHandle = handle], << >>)

\* mousemove / touchmove with the pointer at x (clientX - trackRect.left)
handleDrag(state, x) ==
    IF ~state.isDragging \/ state.currentHandle = "none"
    THEN SliderResult(state, << >>)
    ELSE LET year == YearAt(state, ClampToTrack(x))
             after == IF state.currentHandle = "start"
                      THEN [state EXCEPT !.currentStart = Min(year, state.currentEnd)]
                      ELSE [state EXCEPT !.currentEnd = Max(year, state.currentStart)]
         IN SliderResult(after, OnChangeCalls(after, after.currentStart, after.currentEnd))

endDrag(state) ==
    IF ~state.isDragging
    THEN SliderResult(state, << >>)
    ELSE SliderResult([state EXCEPT !.isDragging = FALSE, !.currentHandle = "none"], << >>)

Abs(n) == IF n < 0 THEN 0 - n ELSE n

\* click on the track (or on a handle inside it) with the pointer at x
handleTrackClick(state, x) ==
    IF state.isDragging
    THEN SliderResult(state, << >>)
    ELSE LET year == YearAt(state, x)
             startDistance == Abs(year - state.currentStart)
             endDistance == Abs(year - state.currentEnd)
             after == IF startDistance < endDistance
                      THEN [state EXCEPT !.currentStart = Min(year, state.currentEnd)]
                      ELSE [state EXCEPT !.currentEnd = Max(year, state.currentStart)]
         IN SliderResult(after, OnChangeCalls(after, after.currentStart, after.currentEnd))

-----------------------------------------------------------------------------
(* app.js: loading the data and the page *)

\* An error message: a fixed text, followed by the text of the error that
\* caused it where the source interpolates one
Message(text) == [text |-> text, cause |-> ""]
NoMessage == Message("")

\* The page before init(): no inline display set, no error shown
PageStart == [loading |-> "", appContent |-> "", error |-> NoMessage, retry |-> FALSE]

showLoading(p) == [p EXCEPT !.loading = "block", !.appContent = "none"]
hideLoading(p) == [p EXCEPT !.loading = "none", !.appContent = "block"]

\* showError replaces the content of #loading by the message and a Retry button
showError(p, message) == [p EXCEPT !.error = message, !.retry = TRUE]

\* An error that is thrown: its name, its message and the substrings of the
\* message that the catch block of loadSnowfallData looks for.
Thrown(kind, name, message, contains) ==
    [kind |-> kind, name |-> name, message |-> message, contains |-> contains]

\* what makes the try block of loadSnowfallData throw
LoadFailures ==
    { Thrown("timeout", "AbortError", "The user aborted a request.", {}),
      Thrown("http404", "Error", "HTTP 404: File not found at data/snowfall-data.json.", {"404"}),
      Thrown("http500", "Error", "HTTP 500: Internal Server Error", {}),
      Thrown("network", "TypeError", "Failed to fetch", {"Failed to fetch"}),
      Thrown("network", "TypeError", "Load failed", {}),
      Thrown("json", "SyntaxError", "Unexpected token < in JSON at position 0",
                  {"JSON", "Unexpected token"}),
      Thrown("json", "SyntaxError", "Unexpected end of JSON input", {"JSON"}),
      Thrown("json", "SyntaxError", "Unexpected token } in JSON at position 404",
                  {"404", "JSON", "Unexpected token"}) }

TimedOutMessage ==
    Message("Request timed out after 30 seconds. The data file (2.1MB) may be too large for your connection. Please try again or check your internet connection.")
NetworkMessage ==
    Message("Network error. Please check your internet connection and try again. If the problem persists, the data file may not be accessible.")
NotFoundMessage ==
    Message("Data file not found (404). Please ensure the snowfall-data.json file exists in the data/ directory and is committed to the GitHub repository.")
InvalidJsonMessage ==
    Message("Invalid JSON data. The data file may be corrupted or incomplete.")

\* `Failed to load data: ${error.message}`
OtherFailureMessage(message) == [text |-> "Failed to load data: ", cause |-> message]

\* the if / else-if chain of the catch block, in its order
SpecificMessage(error) ==
    IF error.name = "AbortError" THEN TimedOutMessage
    ELSE IF error.contains \cap {"Failed to fetch", "NetworkError", "TypeError"} # {}
    THEN NetworkMessage
    ELSE IF error.contains \cap {"404", "Not Found"} # {} THEN NotFoundMessage
    ELSE IF error.contains \cap {"JSON", "parse", "Unexpected token"} # {}
    THEN InvalidJsonMessage
    ELSE OtherFailureMessage(error.message)

\* dataUrl is declared with let inside the try block, so the catch block's
\* reference to it (the object logged as 'Error details:') is out of scope
\* and throws a ReferenceError before the chain is reached.
DataUrlInCatchScope == FALSE
ReferenceErrorMessage ==
    Message("dataUrl is not defined")

\* the message of the error loadSnowfallData rejects with
loadSnowfallData(error) ==
    IF DataUrlInCatchScope THEN SpecificMessage(error) ELSE ReferenceErrorMessage

\* Math.min(...years) and Math.max(...years); Infinity and -Infinity for none
RECURSIVE MathMin(_)
MathMin(years) ==
    IF years = << >> THEN PosInf
    ELSE IF Len(years) = 1 THEN Head(years)
    ELSE Min(Head(years), MathMin(Tail(years)))

RECURSIVE MathMax(_)
MathMax(years) ==
    IF years = << >> THEN NegInf
    ELSE IF Len(years) = 1 THEN Head(years)
    ELSE Max(Head(years), MathMax(Tail(years)))

StartYears(seasons) == [k \in 1..Len(seasons) |-> seasons[k].startYear]

-----------------------------------------------------------------------------
(* app.js and the chart's event handlers *)

Op(name, i, a, b) ==
    [op |-> name, i |-> i, a |-> a, b |-> b, pre |-> highlightState,
     shown |-> Len(appState.filteredSeasons)]

NoCall == [fn |-> "none", arg |-> NotArr, a |-> 0, b |-> 0, ret |-> << >>]

AppStart ==
    /\ appState = [allSeasons |-> << >>, filteredSeasons |-> << >>,
                   chart |-> FALSE, isLoaded |-> FALSE]
    /\ chart = NoChart
    /\ highlightState = NoHighlight
    /\ lastOp = [op |-> "none", i |-> Null, a |-> 0, b |-> 0, pre |-> NoHighlight, shown |-> 0]
    /\ lastRange = [set |-> FALSE, a |-> 0, b |-> 0]
    /\ sliderState = SliderStart
    /\ page = PageStart

Init ==
    /\ AppStart
    /\ call = NoCall

\* init() runs to the end: data loaded, slider and chart created
InitOk(seasons) ==
    /\ lastOp.op = "none"
    /\ appState' = [allSeasons |-> seasons, filteredSeasons |-> seasons,
                    chart |-> TRUE, isLoaded |-> TRUE]
    /\ sliderState' = initSlider(sliderState, MathMin(StartYears(seasons)),
                                 MathMax(StartYears(seasons))).state
    /\ chart' = initChart(seasons)
    /\ page' = hideLoading(showLoading(page))
    /\ lastOp' = Op("init", Null, 0, 0)
    /\ UNCHANGED <<highlightState, lastRange, call>>

\* the errors init() catches at each stage
StageErrors(stage) ==
    CASE stage = "load" -> LoadFailures
      [] stage = "validate" ->
            {Thrown("validate", "Error", "Invalid data format received", {})}
      [] stage = "slider" ->
            {Thrown("slider", "Error",
                    "Container element with ID 'year-slider-container' not found", {})}
      [] stage = "chart" ->
            {Thrown("chart", "Error",
                    "Canvas element with id \"snowfall-chart\" not found", {})}

\* error.message as the catch of init() sees it: loadSnowfallData's own catch
\* replaces the error of a failed load
CaughtMessage(stage, error) ==
    IF stage = "load" THEN loadSnowfallData(error) ELSE Message(error.message)

\* init() throws: while loading or validating the data (nothing assigned yet),
\* in initSlider (the seasons are assigned, the slider untouched) or in
\* initChart (the slider is initialised too); the catch shows the message.
\* For a failed load, call keeps the error and the message it was turned into.
InitFailed(stage, seasons, error) ==
    /\ lastOp.op = "none"
    /\ appState' = IF stage \in {"slider", "chart"}
                   THEN [appState EXCEPT !.allSeasons = seasons, !.filteredSeasons = seasons]
                   ELSE appState
    /\ sliderState' = IF stage = "chart"
                      THEN initSlider(sliderState, MathMin(StartYears(seasons)),
                                      MathMax(StartYears(seasons))).state
                      ELSE sliderState
    /\ page' = showError(showLoading(page), CaughtMessage(stage, error))
    /\ call' = IF stage = "load"
               THEN [fn |-> "loadSnowfallData", arg |-> error, a |-> 0, b |-> 0,
                     ret |-> loadSnowfallData(error)]
               ELSE call
    /\ lastOp' = Op("initFailed", Null, 0, 0)
    /\ UNCHANGED <<chart, highlightState, lastRange>>

\* onSliderChange without the isLoaded test
onSliderChange_unguarded(startYear, endYear) ==
    /\ lastOp' = Op("onSliderChange", Null, startYear, endYear)
    /\ LET filtered == filterSeasonsByRange(Arr(appState.allSeasons), startYear, endYear)
           after == updateChart(highlightState, filtered)
       IN /\ appState' = [appState EXCEPT !.filteredSeasons = filtered]
          /\ lastRange' = [set |-> TRUE, a |-> startYear, b |-> endYear]
          /\ IF appState.chart
             THEN chart' = after.chart /\ highlightState' = after.state
             ELSE UNCHANGED <<chart, highlightState>>
    /\ UNCHANGED <<call, sliderState, page>>

onSliderChange_refilter(startYear, endYear) ==
    /\ lastOp' = Op("onSliderChange", Null, startYear, endYear)
    /\ IF ~appState.isLoaded
       THEN UNCHANGED <<appState, chart, highlightState, lastRange>>
       ELSE LET filtered == filterSeasonsByRange(Arr(appState.filteredSeasons), startYear, endYear)
                after == updateChart(highlightState, filtered)
            IN /\ appState' = [appState EXCEPT !.filteredSeasons = filtered]
               /\ lastRange' = [set |-> TRUE, a |-> startYear, b |-> endYear]
               /\ IF appState.chart
                  THEN chart' = after.chart /\ highlightState' = after.state
                  ELSE UNCHANGED <<chart, highlightState>>
    /\ UNCHANGED <<call, sliderState, page>>

onSliderChange(startYear, endYear) ==
    /\ lastOp' = Op("onSliderChange", Null, startYear, endYear)
    /\ IF ~appState.isLoaded
       THEN UNCHANGED <<appState, chart, highlightState, lastRange>>
       ELSE LET filtered == filterSeasonsByRange(Arr(appState.allSeasons), startYear, endYear)
                after == updateChart(highlightState, filtered)
            IN /\ appState' = [appState EXCEPT !.filteredSeasons = filtered]
               /\ lastRange' = [set |-> TRUE, a |-> startYear, b |-> endYear]
               /\ IF appState.chart
                  THEN chart' = after.chart /\ highlightState' = after.state
                  ELSE UNCHANGED <<chart, highlightState>>
    /\ UNCHANGED <<call, sliderState, page>>

\* the dataset indices the chart can report as active
DatasetIndices == 0..(Len(chart.datasets) - 1)

\* options.onHover: active is the datasetIndex of activeElements[0], or Null
\* when activeElements is empty
onHover(active) ==
    /\ appState.chart
    /\ lastOp' = Op("onHover", active, 0, 0)
    /\ IF active # Null
       THEN /\ chart' = [chart EXCEPT !.datasets = highlightSeries(chart.datasets, active)]
            /\ UNCHANGED highlightState
       ELSE /\ chart' = [chart EXCEPT !.datasets = clearHighlight(chart.datasets)]
            /\ highlightState' = NoHighlight
    /\ UNCHANGED <<appState, lastRange, call, sliderState, page>>

\* options.onClick
onClick(active) ==
    /\ appState.chart
    /\ lastOp' = Op("onClick", active, 0, 0)
    /\ IF active # Null
       THEN LET after == toggleHighlight(highlightState, chart.datasets, active)
            IN /\ chart' = [chart EXCEPT !.datasets = after.datasets]
               /\ highlightState' = after.state
       ELSE UNCHANGED <<chart, highlightState>>
    /\ UNCHANGED <<appState, lastRange, call, sliderState, page>>

Next ==
    \/ \E seasons \in LoadableSeasonLists : InitOk(seasons)
    \/ \E stage \in {"load", "validate", "slider", "chart"}, seasons \in LoadableSeasonLists :
          \E error \in StageErrors(stage) : InitFailed(stage, seasons, error)
    \/ \E a \in RangeYears, b \in RangeYears : onSliderChange(a, b)
    \/ \E active \in DatasetIndices \cup {Null} : onHover(active)
    \/ \E active \in DatasetIndices \cup {Null} : onClick(active)

Spec == Init /\ [][Next]_vars

-----------------------------------------------------------------------------
(* filterSeasonsByRange applied to bounded inputs *)

\* seasons as the filter sees them; two seasons may share a startYear
FilterSeasonSet ==
    {Season(y, d) : y \in Years, d \in {<< >>, <<Rec(120, 0, 0)>>}}

FilterInputs == {NotArr} \cup {Arr(s) : s \in SeqsUpTo(FilterSeasonSet, MaxSeasons)}

InitFilter ==
    /\ AppStart
    /\ call \in {[fn |-> "pending", arg |-> s, a |-> a, b |-> b, ret |-> << >>] :
                    s \in FilterInputs, a \in RangeYears, b \in RangeYears}

CallFilter ==
    /\ call.fn = "pending"
    /\ call' = [call EXCEPT !.fn = "filterSeasonsByRange",
                            !.ret = filterSeasonsByRange(call.arg, call.a, call.b)]
    /\ UNCHANGED <<appState, chart, highlightState, lastOp, lastRange, sliderState, page>>

\* the chart is updated with the filtered list, as onSliderChange does
CallUpdateChart ==
    /\ call.fn = "filterSeasonsByRange"
    /\ LET after == updateChart(highlightState, call.ret)
       IN chart' = after.chart /\ highlightState' = after.state
    /\ call' = [call EXCEPT !.fn = "updateChart"]
    /\ UNCHANGED <<appState, lastOp, lastRange, sliderState, page>>

NextFilter == CallFilter \/ CallUpdateChart

SpecFilter == InitFilter /\ [][NextFilter]_vars

-----------------------------------------------------------------------------
(* initChart and updateChart applied to the same seasons *)

\* dailyData of a season: none, snow on the first days, a total whose product
\* with 1.1 is rounded up, snow on the last day, a snowless day holding the
\* largest total, snow late in the season, two snow days in mid-season
AxisCatalog ==
    { << >>,
      <<Rec(0, 2, 3)>>,
      <<Rec(5, 50, 50)>>,
      <<Rec(365, 4, 120)>>,
      <<Rec(120, 0, 90)>>,
      <<Rec(355, 3, 10)>>,
      <<Rec(100, 1, 1), Rec(300, 8, 9)>> }

AxisInputs == SeqsUpTo({Season(YearLo, d) : d \in AxisCatalog}, MaxSeasons)

InitAxis ==
    /\ AppStart
    /\ call \in {[fn |-> "pending", arg |-> s, a |-> 0, b |-> 0, ret |-> << >>] :
                    s \in AxisInputs}

\* call.ret keeps the scales that initChart wrote
CallInitChart ==
    /\ call.fn = "pending"
    /\ chart' = initChart(call.arg)
    /\ call' = [call EXCEPT !.fn = "initChart", !.ret = initChart(call.arg).scales]
    /\ UNCHANGED <<appState, highlightState, lastOp, lastRange, sliderState, page>>

\* the chart is then updated with the seasons it was created with
CallUpdateChartAgain ==
    /\ call.fn = "initChart"
    /\ LET after == updateChart(highlightState, call.arg)
       IN chart' = after.chart /\ highlightState' = after.state
    /\ call' = [call EXCEPT !.fn = "updateChart"]
    /\ UNCHANGED <<appState, lastOp, lastRange, sliderState, page>>

NextAxis == CallInitChart \/ CallUpdateChartAgain

SpecAxis == InitAxis /\ [][NextAxis]_vars

-----------------------------------------------------------------------------
(* getAxisBounds applied to bounded inputs *)

\* snow on the first day, a day without snow holding the largest cumulative
\* value, snow in mid-season, a last day without snow
BoundsRecordSet == {Rec(0, 2, 3), Rec(150, 0, 9), Rec(200, 1, 5), Rec(365, 0, 0)}

\* a season without dailyData, or with up to MaxRecords records in any order
BoundsSeasonSet ==
    {[startYear |-> YearLo, hasDailyData |-> FALSE, dailyData |-> << >>]}
    \cup {Season(YearLo, d) : d \in SeqsUpTo(BoundsRecordSet, MaxRecords)}

BoundsInputs == {NotArr} \cup {Arr(s) : s \in SeqsUpTo(BoundsSeasonSet, MaxSeasons)}

InitBounds ==
    /\ AppStart
    /\ call \in {[fn |-> "pending", arg |-> s, a |-> 0, b |-> 0, ret |-> << >>] :
                    s \in BoundsInputs}

CallBounds ==
    /\ call.fn = "pending"
    /\ call' = [call EXCEPT !.fn = "getAxisBounds", !.ret = getAxisBounds(call.arg)]
    /\ UNCHANGED <<appState, chart, highlightState, lastOp, lastRange, sliderState, page>>

SpecBounds == InitBounds /\ [][CallBounds]_vars

-----------------------------------------------------------------------------
(* calculateDailySnowfall, both implementations, applied to bounded depths *)

DepthInputs == {NotArr} \cup {Arr(d) : d \in SeqsUpTo(0..MaxDepth, MaxLen)}

InitDaily ==
    /\ AppStart
    /\ call \in {[fn |-> "pending", arg |-> d, a |-> 0, b |-> 0, ret |-> << >>] :
                    d \in DepthInputs}

\* data-processor.js
CallDailyProcessor ==
    /\ call.fn = "pending"
    /\ call' = [call EXCEPT !.fn = "data-processor.calculateDailySnowfall",
                            !.ret = calculateDailySnowfall(call.arg)]
    /\ UNCHANGED <<appState, chart, highlightState, lastOp, lastRange, sliderState, page>>

\* snowfall-calculations.js
CallDailyCalc ==
    /\ call.fn = "pending"
    /\ call' = [call EXCEPT !.fn = "snowfall-calculations.calculateDailySnowfall",
                            !.ret = calculateDailySnowfall_calc(call.arg)]
    /\ UNCHANGED <<appState, chart, highlightState, lastOp, lastRange, sliderState, page>>

\* fetch-snotel-data.js, called with the array of generated depths
CallDailySnotel ==
    /\ call.fn = "pending"
    /\ call.arg.isArray
    /\ call' = [call EXCEPT !.fn = "fetch-snotel-data.calculateDailySnowfall",
                            !.ret = calculateDailySnowfall_snotel(call.arg)]
    /\ UNCHANGED <<appState, chart, highlightState, lastOp, lastRange, sliderState, page>>

NextDaily == CallDailyProcessor \/ CallDailyCalc \/ CallDailySnotel

SpecDaily == InitDaily /\ [][NextDaily]_vars

\* calculateCumulative applied to one sequence of non-negative daily values
DailyInputs == {NotArr} \cup {Arr(d) : d \in SeqsUpTo(0..MaxDepth, MaxLen)}

InitCumulative ==
    /\ AppStart
    /\ call \in {[fn |-> "pending", arg |-> d, a |-> 0, b |-> 0, ret |-> << >>] :
                    d \in DailyInputs}

\* data-processor.js
CallCumulativeProcessor ==
    /\ call.fn = "pending"
    /\ call' = [call EXCEPT !.fn = "data-processor.calculateCumulative",
                            !.ret = calculateCumulative(call.arg)]
    /\ UNCHANGED <<appState, chart, highlightState, lastOp, lastRange, sliderState, page>>

\* snowfall-calculations.js
CallCumulativeCalc ==
    /\ call.fn = "pending"
    /\ call' = [call EXCEPT !.fn = "snowfall-calculations.calculateCumulative",
                            !.ret = calculateCumulative_calc(call.arg)]
    /\ UNCHANGED <<appState, chart, highlightState, lastOp, lastRange, sliderState, page>>

\* fetch-snotel-data.js, called with the array of daily values
CallCumulativeSnotel ==
    /\ call.fn = "pending"
    /\ call.arg.isArray
    /\ call' = [call EXCEPT !.fn = "fetch-snotel-data.calculateCumulative",
                            !.ret = calculateCumulative_snotel(call.arg)]
    /\ UNCHANGED <<appState, chart, highlightState, lastOp, lastRange, sliderState, page>>

NextCumulative == CallCumulativeProcessor \/ CallCumulativeCalc \/ CallCumulativeSnotel

SpecCumulative == InitCumulative /\ [][NextCumulative]_vars

\* getSeasonColor for one index, and for all the datasets of a chart
MaxTotal == 6

ColorInputs ==
    {[total |-> n, index |-> i] : n \in 0..MaxTotal, i \in (0 - MaxTotal)..(2 * MaxTotal)}

PaletteInputs == {[total |-> n] : n \in 0..MaxTotal}

InitColor ==
    /\ AppStart
    /\ call \in {[fn |-> "pending", arg |-> x, a |-> 0, b |-> 0, ret |-> << >>] :
                    x \in ColorInputs \cup PaletteInputs}

CallGetSeasonColor ==
    /\ call.fn = "pending"
    /\ "index" \in DOMAIN call.arg
    /\ call' = [call EXCEPT !.fn = "getSeasonColor",
                            !.ret = getSeasonColor(call.arg.index, call.arg.total)]
    /\ UNCHANGED <<appState, chart, highlightState, lastOp, lastRange, sliderState, page>>

\* seasons.map((season, index) => getSeasonColor(index, seasons.length))
CallPalette ==
    /\ call.fn = "pending"
    /\ "index" \notin DOMAIN call.arg
    /\ call' = [call EXCEPT !.fn = "palette",
                            !.ret = [k \in 1..call.arg.total |->
                                        getSeasonColor(k - 1, call.arg.total)]]
    /\ UNCHANGED <<appState, chart, highlightState, lastOp, lastRange, sliderState, page>>

NextColor == CallGetSeasonColor \/ CallPalette

SpecColor == InitColor /\ [][NextColor]_vars

\* formatSeasonLabel applied to one integer start year, in and around 1000..9999
LabelYears == 990..10010

\* values that are no integer: halves (exact in binary), NaN, the infinities,
\* a string, null and undefined
LabelOddValues ==
    {Fraction(y, 5) : y \in {999, 1000, 2023, 9998, 9999}}
        \cup {Special("nan"), Special("inf"), Special("-inf")}
        \cup {NonNumber("string"), NonNumber("object"), NonNumber("undefined")}

InitLabel ==
    /\ AppStart
    /\ call \in {[fn |-> "pending", arg |-> x, a |-> 0, b |-> 0, ret |-> << >>] :
                    x \in {Num(y) : y \in LabelYears} \cup LabelOddValues}

CallFormatSeasonLabel ==
    /\ call.fn = "pending"
    /\ call' = [call EXCEPT !.fn = "formatSeasonLabel", !.ret = formatSeasonLabel(call.arg)]
    /\ UNCHANGED <<appState, chart, highlightState, lastOp, lastRange, sliderState, page>>

SpecLabel == InitLabel /\ [][CallFormatSeasonLabel]_vars

\* ---- scripts/process-noaa-data.js ----

\* a JavaScript number that may be NaN
NaN == [nan |-> TRUE, v |-> 0]
Finite(v) == [nan |-> FALSE, v |-> v]
Plus(x, k) == IF x.nan THEN NaN ELSE Finite(x.v + k)

\* String(x) and `${x}` for NaN and for integers x >= 0
NumberString(x) == IF x.nan THEN <<"N", "a", "N">> ELSE DecimalString(x.v)

\* the digit a character stands for, -1 for any other character
DigitOf(c) ==
    IF \E k \in 0..9 : DigitChar[k + 1] = c
    THEN CHOOSE k \in 0..9 : DigitChar[k + 1] = c
    ELSE -1

IsDigits(str) == \A k \in 1..Len(str) : DigitOf(str[k]) >= 0

RECURSIVE DigitsValue(_)
DigitsValue(str) ==
    IF str = << >> THEN 0
    ELSE 10 * DigitsValue(SubSeq(str, 1, Len(str) - 1)) + DigitOf(str[Len(str)])

\* Number(str): digits give their value, '' gives 0, text that is no numeral gives NaN
ToNumber(str) ==
    IF str = << >> THEN Finite(0)
    ELSE IF IsDigits(str) THEN Finite(DigitsValue(str))
    ELSE NaN

\* str.split('-')
RECURSIVE SplitDash(_)
SplitDash(str) ==
    IF \A k \in 1..Len(str) : str[k] # "-" THEN <<str>>
    ELSE LET p == CHOOSE k \in 1..Len(str) :
                      str[k] = "-" /\ \A j \in 1..(k - 1) : str[j] # "-"
         IN <<SubSeq(str, 1, p - 1)>> \o SplitDash(SubSeq(str, p + 1, Len(str)))

\* the calendar behind Date
IsLeap(y) == (y % 4 = 0 /\ y % 100 # 0) \/ y % 400 = 0

DaysInMonth(y, m) ==
    IF m = 2 THEN (IF IsLeap(y) THEN 29 ELSE 28)
    ELSE IF m \in {4, 6, 9, 11} THEN 30
    ELSE 31

RECURSIVE DaysBeforeMonth(_, _)
DaysBeforeMonth(y, m) ==
    IF m = 1 THEN 0 ELSE DaysBeforeMonth(y, m - 1) + DaysInMonth(y, m - 1)

LeapsBefore(y) == ((y - 1) \div 4) - ((y - 1) \div 100) + ((y - 1) \div 400)

\* day number of the calendar date y-m-d (m in 1..12), counted from 0001-01-01
EpochDay(y, m, d) == 365 * (y - 1) + LeapsBefore(y) + DaysBeforeMonth(y, m) + d - 1

\* 0 = Sunday; 0001-01-01 was a Monday
Weekday(y, m, d) == (EpochDay(y, m, d) + 1) % 7

\* the n-th Sunday of month m in year y
NthSunday(y, m, n) ==
    CHOOSE d \in (7 * n - 6)..(7 * n) : Weekday(y, m, d) = 0

\* Time zones of the machine that runs the script. Daylight time begins and
\* ends at 2 or 3 a.m., so the midnight of a changeover day still has the old offset.
TimeZones == {"UTC", "America/Denver", "Australia/Sydney"}

DenverDaylight(y, m, d) ==
    LET day == EpochDay(y, m, d)
    IN day > EpochDay(y, 3, NthSunday(y, 3, 2)) /\ day <= EpochDay(y, 11, NthSunday(y, 11, 1))

SydneyDaylight(y, m, d) ==
    LET day == EpochDay(y, m, d)
    IN day <= EpochDay(y, 4, NthSunday(y, 4, 1)) \/ day > EpochDay(y, 10, NthSunday(y, 10, 1))

\* hours ahead of UTC at local midnight of y-m-d
UtcOffset(tz, y, m, d) ==
    IF tz = "America/Denver" THEN (IF DenverDaylight(y, m, d) THEN -6 ELSE -7)
    ELSE IF tz = "Australia/Sydney" THEN (IF SydneyDaylight(y, m, d) THEN 11 ELSE 10)
    ELSE 0

\* a Date object: local fields and the time value, in hours
InvalidDate == [valid |-> FALSE, year |-> 0, month |-> 0, day |-> 0, time |-> 0]

\* new Date(year, monthIndex, day) for a calendar date or for NaN arguments
NewDate(tz, year, monthIndex, day) ==
    IF year.nan \/ monthIndex.nan \/ day.nan THEN InvalidDate
    ELSE [valid |-> TRUE, year |-> year.v, month |-> monthIndex.v, day |-> day.v,
          time |-> 24 * EpochDay(year.v, monthIndex.v + 1, day.v)
                   - UtcOffset(tz, year.v, monthIndex.v + 1, day.v)]

GetFullYear(date) == IF date.valid THEN Finite(date.year) ELSE NaN
GetMonth(date) == IF date.valid THEN Finite(date.month) ELSE NaN

\* a missing part of the split is undefined, which is NaN in arithmetic
parseDate(tz, dateStr) ==
    LET parts == SplitDash(dateStr)
        year == ToNumber(parts[1])
        month == IF Len(parts) >= 2 THEN ToNumber(parts[2]) ELSE NaN
        day == IF Len(parts) >= 3 THEN ToNumber(parts[3]) ELSE NaN
    IN NewDate(tz, year, Plus(month, -1), day)

getSkiSeason(date) ==
    LET year == GetFullYear(date)
        month == GetMonth(date)
    IN IF ~month.nan /\ month.v >= 7
       THEN NumberString(year) \o <<"-">> \o LastTwo(NumberString(Plus(year, 1)))
       ELSE NumberString(Plus(year, -1)) \o <<"-">> \o LastTwo(NumberString(year))

\* Math.floor((date - seasonStart) / 86400000), the times being in hours here
getDayOfSeason(tz, date) ==
    LET year == GetFullYear(date)
        month == GetMonth(date)
        seasonStart == IF ~month.nan /\ month.v >= 7
                       THEN NewDate(tz, year, Finite(7), Finite(1))
                       ELSE NewDate(tz, Plus(year, -1), Finite(7), Finite(1))
    IN IF ~date.valid \/ ~seasonStart.valid THEN NaN
       ELSE Finite((date.time - seasonStart.time) \div 24)

\* parseInt(str): the value of the leading digits, NaN when there is none
RECURSIVE LeadingDigits(_)
LeadingDigits(str) ==
    IF str = << >> \/ DigitOf(Head(str)) < 0 THEN << >>
    ELSE <<Head(str)>> \o LeadingDigits(Tail(str))

\* A column value: a string, or undefined. Amounts are counted in hundredths of an inch.
Undefined == [defined |-> FALSE, text |-> << >>]
Text(str) == [defined |-> TRUE, text |-> str]

\* the first two decimals of a fraction's digits, in hundredths
Hundredths(digits) ==
    IF Len(digits) = 0 THEN 0
    ELSE IF Len(digits) = 1 THEN 10 * DigitOf(digits[1])
    ELSE 10 * DigitOf(digits[1]) + DigitOf(digits[2])

\* parseFloat(str) for texts of the form [-]digits[.digits] followed by anything:
\* the longest numeral at the start is read, NaN when there is none
ParseFloat(str) ==
    LET negative == str # << >> /\ Head(str) = "-"
        body == IF negative THEN Tail(str) ELSE str
        whole == LeadingDigits(body)
        rest == SubSeq(body, Len(whole) + 1, Len(body))
        fraction == IF rest # << >> /\ Head(rest) = "." THEN LeadingDigits(Tail(rest)) ELSE << >>
        magnitude == 100 * DigitsValue(whole) + Hundredths(fraction)
    IN IF whole = << >> /\ fraction = << >> THEN NaN
       ELSE Finite(IF negative THEN 0 - magnitude ELSE magnitude)

parseSnowfall_noClamp(value) ==
    IF ~value.defined \/ value.text = << >> \/ value.text = <<"T">> THEN 0
    ELSE LET num == ParseFloat(value.text)
         IN IF num.nan THEN 0 ELSE num.v

parseSnowfall(value) ==
    IF ~value.defined \/ value.text = << >> \/ value.text = <<"T">> THEN 0
    ELSE LET num == ParseFloat(value.text)
         IN IF num.nan THEN 0 ELSE Max(0, num.v)

parseSnowDepth(value) ==
    IF ~value.defined \/ value.text = << >> \/ value.text = <<"T">> THEN 0
    ELSE LET num == ParseFloat(value.text)
         IN IF num.nan THEN 0 ELSE Max(0, num.v)

ParseInt(str) ==
    IF LeadingDigits(str) = << >> THEN NaN ELSE Finite(DigitsValue(LeadingDigits(str)))

\* the DATE column of a row for the calendar date y-m-d: "YYYY-MM-DD"
TwoDigits(n) == <<DigitChar[(n \div 10) + 1], DigitChar[(n % 10) + 1]>>
DateText(y, m, d) ==
    TwoDigits(y \div 100) \o TwoDigits(y % 100) \o <<"-">> \o TwoDigits(m) \o <<"-">> \o TwoDigits(d)

DateYears == YearLo..(YearHi + 1)

CalendarDates ==
    {<<y, m, d>> \in DateYears \X (1..12) \X (1..31) : d <= DaysInMonth(y, m)}

\* getSkiSeason and getDayOfSeason applied to the date of one row
SeasonInputs ==
    {[tz |-> tz, y |-> c[1], m |-> c[2], d |-> c[3], dateStr |-> DateText(c[1], c[2], c[3])] :
        tz \in TimeZones, c \in CalendarDates}

InitSeason ==
    /\ AppStart
    /\ call \in {[fn |-> "pending", arg |-> x, a |-> 0, b |-> 0, ret |-> << >>] :
                    x \in SeasonInputs}

CallGetSkiSeason ==
    /\ call.fn = "pending"
    /\ call' = [call EXCEPT !.fn = "getSkiSeason",
                            !.ret = getSkiSeason(parseDate(call.arg.tz, call.arg.dateStr))]
    /\ UNCHANGED <<appState, chart, highlightState, lastOp, lastRange, sliderState, page>>

CallGetDayOfSeason ==
    /\ call.fn = "pending"
    /\ call' = [call EXCEPT !.fn = "getDayOfSeason",
                            !.ret = getDayOfSeason(call.arg.tz,
                                                   parseDate(call.arg.tz, call.arg.dateStr))]
    /\ UNCHANGED <<appState, chart, highlightState, lastOp, lastRange, sliderState, page>>

NextSeason == CallGetSkiSeason \/ CallGetDayOfSeason

SpecSeason == InitSeason /\ [][NextSeason]_vars

\* Raw SNOW and SNWD fields: numerals written with none, one or two decimals,
\* with or without a sign and trailing text, and fields that hold no numeral.
\* Each carries what it was written from: the kind and the amount in hundredths.
Fractions == {[text |-> << >>, v |-> 0], [text |-> <<".", "0">>, v |-> 0],
              [text |-> <<".", "5">>, v |-> 50], [text |-> <<".", "0", "4">>, v |-> 4],
              [text |-> <<".", "2", "5">>, v |-> 25]}

Numerals ==
    {[kind |-> "number",
      value |-> Text((IF neg THEN <<"-">> ELSE << >>) \o DecimalString(n) \o f.text
                     \o (IF unit THEN <<"i", "n">> ELSE << >>)),
      amount |-> IF neg THEN 0 - (100 * n + f.v) ELSE 100 * n + f.v] :
        neg \in BOOLEAN, n \in 0..MaxDepth, f \in Fractions, unit \in BOOLEAN}

NonNumerals ==
    {[kind |-> "absent", value |-> Undefined, amount |-> 0],
     [kind |-> "empty", value |-> Text(<< >>), amount |-> 0],
     [kind |-> "trace", value |-> Text(<<"T">>), amount |-> 0],
     [kind |-> "text", value |-> Text(<<"M">>), amount |-> 0],
     [kind |-> "text", value |-> Text(<<"n", "/", "a">>), amount |-> 0],
     [kind |-> "text", value |-> Text(<<"-">>), amount |-> 0]}

RawFields == Numerals \cup NonNumerals

InitParse ==
    /\ AppStart
    /\ call \in {[fn |-> "pending", arg |-> x, a |-> 0, b |-> 0, ret |-> << >>] :
                    x \in RawFields}

CallParseSnowfall ==
    /\ call.fn = "pending"
    /\ call' = [call EXCEPT !.fn = "parseSnowfall", !.ret = parseSnowfall(call.arg.value)]
    /\ UNCHANGED <<appState, chart, highlightState, lastOp, lastRange, sliderState, page>>

CallParseSnowDepth ==
    /\ call.fn = "pending"
    /\ call' = [call EXCEPT !.fn = "parseSnowDepth", !.ret = parseSnowDepth(call.arg.value)]
    /\ UNCHANGED <<appState, chart, highlightState, lastOp, lastRange, sliderState, page>>

NextParse == CallParseSnowfall \/ CallParseSnowDepth

SpecParse == InitParse /\ [][NextParse]_vars

\* Math.round(x * 10) / 10 for an amount x >= 0 in hundredths: halves round up
RoundToTenth(x) == ((x + 5) \div 10) * 10

\* A data line after the split into columns: how many columns it has and the
\* DATE, SNOW and SNWD columns (columns[2], columns[11], columns[13]).
ColumnsNeeded == 15
DateLength == 10

\* seasonData.get(season).push(record), the Map keeping its keys in insertion order
MapPush(seasonData, season, record) ==
    IF \E k \in 1..Len(seasonData) : seasonData[k].name = season
    THEN [k \in 1..Len(seasonData) |->
             IF seasonData[k].name = season
             THEN [seasonData[k] EXCEPT !.records = Append(@, record)]
             ELSE seasonData[k]]
    ELSE Append(seasonData, [name |-> season, records |-> <<record>>])

\* the body of the loop over the data lines
ReadRow(tz, seasonData, row) ==
    IF row.ncols < ColumnsNeeded THEN seasonData
    ELSE IF row.dateStr = << >> \/ Len(row.dateStr) # DateLength THEN seasonData
    ELSE LET date == parseDate(tz, row.dateStr)
         IN MapPush(seasonData, getSkiSeason(date),
                    [date |-> row.dateStr,
                     dayOfSeason |-> getDayOfSeason(tz, date),
                     snowDepth |-> parseSnowDepth(Text(row.snowDepth)),
                     dailySnowfall |-> parseSnowfall(Text(row.snowfall)),
                     originalDate |-> date])

RECURSIVE ReadRows(_, _, _)
ReadRows(tz, seasonData, rows) ==
    IF rows = << >> THEN seasonData
    ELSE ReadRows(tz, ReadRow(tz, seasonData, Head(rows)), Tail(rows))

\* a.originalDate - b.originalDate < 0; a difference with an Invalid Date is NaN, which sorts as 0
DateBefore(a, b) ==
    a.originalDate.valid /\ b.originalDate.valid /\ a.originalDate.time < b.originalDate.time

\* dailyRecords.sort(...): a stable sort
RECURSIVE SortByDate(_)
SortByDate(records) ==
    IF records = << >> THEN << >>
    ELSE LET sorted == SortByDate(SubSeq(records, 1, Len(records) - 1))
             last == records[Len(records)]
             k == Cardinality({i \in 1..Len(sorted) : ~DateBefore(last, sorted[i])})
         IN SubSeq(sorted, 1, k) \o <<last>> \o SubSeq(sorted, k + 1, Len(sorted))

\* the loop that adds up a season: the running total is kept unrounded,
\* each record gets the total rounded to one decimal
RECURSIVE Accumulate(_, _)
Accumulate(records, cumulativeSnowfall) ==
    IF records = << >> THEN << >>
    ELSE LET record == Head(records)
             total == cumulativeSnowfall + record.dailySnowfall
         IN <<[date |-> record.date,
               dayOfSeason |-> record.dayOfSeason,
               snowDepth |-> record.snowDepth,
               dailySnowfall |-> record.dailySnowfall,
               cumulativeSnowfall |-> RoundToTenth(total)]>>
            \o Accumulate(Tail(records), total)

RECURSIVE SumDaily(_)
SumDaily(records) ==
    IF records = << >> THEN 0 ELSE Head(records).dailySnowfall + SumDaily(Tail(records))

BuildSeason(entry) ==
    [season |-> entry.name,
     startYear |-> ParseInt(SplitDash(entry.name)[1]),
     totalSnowfall |-> RoundToTenth(SumDaily(entry.records)),
     dailyData |-> Accumulate(SortByDate(entry.records), 0)]

\* seasons.sort((a, b) => a.startYear - b.startYear) when every startYear is a number
RECURSIVE SortByStartYear(_)
SortByStartYear(seasons) ==
    IF seasons = << >> THEN << >>
    ELSE LET sorted == SortByStartYear(SubSeq(seasons, 1, Len(seasons) - 1))
             last == seasons[Len(seasons)]
             k == Cardinality({i \in 1..Len(sorted) : sorted[i].startYear.v <= last.startYear.v})
         IN SubSeq(sorted, 1, k) \o <<last>> \o SubSeq(sorted, k + 1, Len(sorted))

Orderings(seq) ==
    {[i \in 1..Len(seq) |-> seq[p[i]]] :
        p \in {q \in [1..Len(seq) -> 1..Len(seq)] : \A i, j \in 1..Len(seq) : q[i] = q[j] => i = j}}

\* The orders the final sort can leave the seasons in. With a NaN startYear
\* the comparator answers NaN, which is inconsistent with the order of the
\* other seasons, and the resulting order is up to the engine.
SortedSeasons(seasons) ==
    IF \E k \in 1..Len(seasons) : seasons[k].startYear.nan
    THEN Orderings(seasons)
    ELSE {SortByStartYear(seasons)}

\* the seasons written to the output file
processNoaaData(tz, rows) ==
    LET seasonData == ReadRows(tz, << >>, rows)
    IN SortedSeasons([k \in 1..Len(seasonData) |-> BuildSeason(seasonData[k])])

\* Data lines: well-formed rows on four dates of two seasons, and rows that
\* are short of columns or whose DATE is empty, not ten characters long, or
\* ten characters that are no date. Each row carries what it was written from.
MaxRows == 3

RowDates == {<<YearLo, 7, 31>>, <<YearLo, 8, 1>>, <<YearLo, 12, 25>>, <<YearLo + 1, 1, 2>>}

SnowTexts == {<<"0", ".", "0", "4">>, <<"0", ".", "5">>}

GoodRows ==
    {[kind |-> "good", y |-> c[1], m |-> c[2], d |-> c[3], ncols |-> ColumnsNeeded,
      dateStr |-> DateText(c[1], c[2], c[3]), snowfall |-> t, snowDepth |-> <<"3">>] :
        c \in RowDates, t \in SnowTexts}

BadRow(kind, ncols, dateStr) ==
    [kind |-> kind, y |-> 0, m |-> 0, d |-> 0, ncols |-> ncols,
     dateStr |-> dateStr, snowfall |-> <<"0", ".", "5">>, snowDepth |-> <<"3">>]

BadRows ==
    {BadRow("fewColumns", 3, DateText(YearLo, 12, 25)),
     BadRow("noDate", ColumnsNeeded, << >>),
     BadRow("shortDate", ColumnsNeeded,
            DecimalString(YearLo) \o <<"-", "1", "-", "5">>),
     BadRow("notADate", ColumnsNeeded,
            DecimalString(YearLo) \o <<"/", "1", "2", "/", "2", "5">>)}

NoaaInputs ==
    {[tz |-> tz, rows |-> rows] :
        tz \in TimeZones, rows \in SeqsUpTo(GoodRows \cup BadRows, MaxRows)}

InitNoaa ==
    /\ AppStart
    /\ call \in {[fn |-> "pending", arg |-> x, a |-> 0, b |-> 0, ret |-> << >>] :
                    x \in NoaaInputs}

CallProcessNoaaData ==
    /\ call.fn = "pending"
    /\ \E seasons \in processNoaaData(call.arg.tz, call.arg.rows) :
           call' = [call EXCEPT !.fn = "processNoaaData", !.ret = seasons]
    /\ UNCHANGED <<appState, chart, highlightState, lastOp, lastRange, sliderState, page>>

SpecNoaa == InitNoaa /\ [][CallProcessNoaaData]_vars

\* ---- scripts/fetch-snotel-data.js ----

\* The end of generateSeasonData, from the depths the simulated season went
\* through (currentDepth after each day, in hundredths): the stored depth is
\* rounded to one decimal, daily and cumulative values are computed from the
\* stored depths and rounded to one decimal.
generateSeasonData(walk) ==
    LET snowDepth == [i \in 1..Len(walk) |-> RoundToTenth(walk[i])]
        dailySnowfall == calculateDailySnowfall_snotel(Arr(snowDepth))
        cumulativeSnowfall == calculateCumulative_snotel(Arr(dailySnowfall))
    IN [i \in 1..Len(walk) |->
           [dayOfSeason |-> i - 1,
            snowDepth |-> snowDepth[i],
            dailySnowfall |-> RoundToTenth(dailySnowfall[i]),
            cumulativeSnowfall |-> RoundToTenth(cumulativeSnowfall[i])]]

WalkDepths == {0, 4, 15, 26, 100 * MaxDepth + 31}

WalkInputs == SeqsUpTo(WalkDepths, MaxLen) \ {<< >>}

InitSnotel ==
    /\ AppStart
    /\ call \in {[fn |-> "pending", arg |-> [walk |-> w], a |-> 0, b |-> 0, ret |-> << >>] :
                    w \in WalkInputs}

CallGenerateSeasonData ==
    /\ call.fn = "pending"
    /\ "walk" \in DOMAIN call.arg
    /\ call' = [call EXCEPT !.fn = "generateSeasonData",
                            !.ret = generateSeasonData(call.arg.walk)]
    /\ UNCHANGED <<appState, chart, highlightState, lastOp, lastRange, sliderState, page>>

CallAggregateNoaa == "rows" \in DOMAIN call.arg /\ CallProcessNoaaData

\* both producers of season data
InitAggregator == InitNoaa \/ InitSnotel
NextAggregator == CallAggregateNoaa \/ CallGenerateSeasonData
SpecAggregator == InitAggregator /\ [][NextAggregator]_vars

-----------------------------------------------------------------------------
(* The slider driven by initSlider, setSliderRange and its pointer events *)

\* arguments of setSliderRange: the years of the data and one beyond each end
SliderYears == (YearLo - 1)..(YearHi + 1)

\* an operation on the slider; call records the range it started from and
\* the pairs it passed to onChange
SliderStep(name, arg, result) ==
    /\ sliderState' = result.state
    /\ call' = [fn |-> name, arg |-> arg, a |-> sliderState.currentStart,
                b |-> sliderState.currentEnd, ret |-> result.calls]
    /\ UNCHANGED <<appState, chart, highlightState, lastOp, lastRange, page>>

\* the page initialises the slider once (app.js, init)
CallInitSlider(minYear, maxYear) ==
    /\ ~sliderState.container
    /\ SliderStep("initSlider", <<minYear, maxYear>>, initSlider(sliderState, minYear, maxYear))

CallSetSliderRange(start, end) ==
    SliderStep("setSliderRange", <<start, end>>, setSliderRange(sliderState, start, end))

\* the listeners exist once initSlider has run
MouseDown(handle) ==
    /\ sliderState.container
    /\ SliderStep("startDrag", <<handle>>, startDrag(sliderState, handle))

MouseMove(x) ==
    /\ sliderState.container
    /\ SliderStep("handleDrag", <<x>>, handleDrag(sliderState, x))

MouseUp ==
    /\ sliderState.container
    /\ SliderStep("endDrag", << >>, endDrag(sliderState))

TrackClick(x) ==
    /\ sliderState.container
    /\ SliderStep("handleTrackClick", <<x>>, handleTrackClick(sliderState, x))

NextSlider ==
    \/ \E minYear \in Years, maxYear \in Years : CallInitSlider(minYear, maxYear)
    \/ \E start \in SliderYears, end \in SliderYears : CallSetSliderRange(start, end)
    \/ \E handle \in {"start", "end"} : MouseDown(handle)
    \/ \E x \in PointerPositions : MouseMove(x)
    \/ MouseUp
    \/ \E x \in PointerPositions : TrackClick(x)

SpecSlider == Init /\ [][NextSlider]_vars

-----------------------------------------------------------------------------
(* What is drawn.  A dataset's backgroundColor is set when the dataset is    *)
(* built and never touched by the highlight functions, so it is the series'  *)
(* base colour.                                                              *)

Opaque(color) == color.fmt \in {"hsl", "hex"}

\* reduced opacity of the base colour's own hue
DimOf(color, base) ==
    IF base.fmt = "hsl"
    THEN /\ color.fmt = "hsla"
         /\ color.h = base.h /\ color.s = base.s /\ color.l = base.l
         /\ RatLess(color.alpha, Rat(1, 1))
    ELSE /\ color.fmt = "rgba"
         /\ RatLess(color.alpha, Rat(1, 1))

\* series i (0-based) is drawn with increased stroke width and full-opacity base colour
Emphasised(i) ==
    LET ds == chart.datasets[i + 1]
    IN ds.borderWidth > 2 /\ Opaque(ds.borderColor) /\ ds.borderColor = ds.backgroundColor

\* series i is drawn at default width with reduced opacity
Dimmed(i) ==
    LET ds == chart.datasets[i + 1]
    IN ds.borderWidth = 2 /\ DimOf(ds.borderColor, ds.backgroundColor)

\* series i is drawn at default width and base colour
DefaultDrawn(i) ==
    LET ds == chart.datasets[i + 1]
    IN ds.borderWidth = 2 /\ Opaque(ds.borderColor) /\ ds.borderColor = ds.backgroundColor

AllDefaultDrawn == \A k \in DatasetIndices : DefaultDrawn(k)

\* Normal: nothing recorded, nothing emphasised
NormalState == highlightState = NoHighlight /\ AllDefaultDrawn

\* TapLocked(i), recorded and drawn
LockedDrawn(i) ==
    /\ highlightState = [highlightedDatasetIndex |-> i, isToggled |-> TRUE]
    /\ Emphasised(i)
    /\ \A k \in DatasetIndices \ {i} : Dimmed(k)

\* C1: a tap on series i in Normal locks i (recorded, i emphasised, the others
\* dimmed); a tap on i while i is locked returns to Normal; a tap on i while
\* another series j is locked makes i the only locked and emphasised series.
C1_TapToggle ==
    [][\A i \in DatasetIndices :
          (lastOp'.op = "onClick" /\ lastOp'.i = i) =>
             /\ NormalState => LockedDrawn(i)'
             /\ LockedDrawn(i) => NormalState'
             /\ \A j \in DatasetIndices \ {i} :
                   LockedDrawn(j) => (LockedDrawn(i)' /\ ~Emphasised(j)')]_vars

\* a tap on a series while another one was locked has moved the lock
C1_Witness ==
    /\ lastOp.op = "onClick" /\ lastOp.i # Null
    /\ lastOp.pre.isToggled /\ lastOp.pre.highlightedDatasetIndex # lastOp.i
    /\ Len(chart.datasets) >= 2
    /\ LockedDrawn(lastOp.i)

\* C2: while series i is tap-locked, no hover event (pointer on a series or
\* off all series) changes the recorded lock or removes the emphasis of i.
C2_HoverKeepsLock ==
    [][\A i \in DatasetIndices :
          (LockedDrawn(i) /\ lastOp'.op = "onHover") =>
             (highlightState' = highlightState /\ Emphasised(i)')]_vars

\* C3: after an onSliderChange that reached updateChart nothing is recorded as
\* highlighted and every dataset has the default width and its base colour.
C3_UpdateResets ==
    (lastOp.op = "onSliderChange" /\ appState.isLoaded /\ appState.chart) => NormalState

\* the update followed a tap-lock and left series on the chart
C3_Witness ==
    /\ lastOp.op = "onSliderChange" /\ appState.isLoaded
    /\ lastOp.pre.isToggled
    /\ Len(chart.datasets) >= 2
    /\ NormalState

SetMax(S) == CHOOSE x \in S : \A y \in S : y <= x
SetMin(S) == CHOOSE x \in S : \A y \in S : x <= y

\* the records of a list of seasons
RecordsOf(seasons) ==
    UNION {{seasons[k].dailyData[n] : n \in 1..Len(seasons[k].dailyData)} :
             k \in {m \in 1..Len(seasons) : seasons[m].hasDailyData}}

SnowDays(seasons) == {r.dayOfSeason : r \in {q \in RecordsOf(seasons) : q.dailySnowfall > 0}}

\* the axis limits a set of seasons calls for: 10 days around the snow days,
\* 10% above the largest cumulative value, at least 10
ExpectedScales(seasons) ==
    [xMin |-> IF SnowDays(seasons) = {} THEN 0
              ELSE Max(0, SetMin(SnowDays(seasons)) - 10),
     xMax |-> IF SnowDays(seasons) = {} THEN 365
              ELSE Min(365, SetMax(SnowDays(seasons)) + 10),
     yMax |-> Max(10, CeilDiv(11 * SetMax({r.cumulativeSnowfall : r \in RecordsOf(seasons)} \cup {0}), 10))]

\* the seasons of the full set whose startYear lies in [a, b], in order
InRangeOf(seasons, a, b) == SelectSeq(seasons, LAMBDA s : a <= s.startYear /\ s.startYear <= b)

C4_Displayed ==
    (appState.isLoaded /\ lastRange.set) =>
        LET shown == InRangeOf(appState.allSeasons, lastRange.a, lastRange.b)
        IN /\ appState.filteredSeasons = shown
           /\ Len(chart.datasets) = Len(shown)
           /\ \A k \in 1..Len(shown) :
                 /\ chart.datasets[k].label = formatSeasonLabel(Num(shown[k].startYear))
                 /\ chart.datasets[k].data = SeasonPoints(shown[k])
           /\ chart.scales = ExpectedScales(shown)

\* C4: once loaded, the displayed set, the chart's datasets and its axis
\* limits are those of the last slider range applied to the full loaded set,
\* and the full set itself never changes.
C4_LastWriteWins ==
    /\ []C4_Displayed
    /\ [][appState.isLoaded => appState'.allSeasons = appState.allSeasons]_vars

\* a slider change widened the range and brought seasons back
C4_Witness ==
    /\ appState.isLoaded /\ lastOp.op = "onSliderChange"
    /\ lastOp.shown < Len(appState.filteredSeasons)
    /\ Len(appState.filteredSeasons) < Len(appState.allSeasons)
    /\ chart.scales # ExpectedScales(appState.allSeasons)

Lightness(color) == color.l

\* C5: whenever two or more seasons are displayed, a season with a greater
\* startYear is drawn strictly darker (lower lightness) than an older one.
C5_NewestDarkest ==
    (appState.isLoaded /\ Len(chart.datasets) >= 2) =>
        \A k, m \in 1..Len(chart.datasets) :
            appState.filteredSeasons[k].startYear > appState.filteredSeasons[m].startYear
            => RatLess(Lightness(chart.datasets[k].backgroundColor),
                       Lightness(chart.datasets[m].backgroundColor))

\* C6: after the pointer enters series i, i is drawn emphasised and every
\* other series dimmed; after it leaves all series every series is drawn at
\* default width and base colour.
C6_HoverEmphasis ==
    lastOp.op = "onHover" =>
        IF lastOp.i # Null
        THEN Emphasised(lastOp.i) /\ \A k \in DatasetIndices \ {lastOp.i} : Dimmed(k)
        ELSE AllDefaultDrawn

\* the pointer is on one of several series and no tap-lock was involved
C6_Witness ==
    /\ lastOp.op = "onHover" /\ lastOp.i # Null
    /\ ~lastOp.pre.isToggled
    /\ Len(chart.datasets) >= 2
    /\ Emphasised(lastOp.i)
    /\ \E k \in DatasetIndices \ {lastOp.i} : Dimmed(k)

-----------------------------------------------------------------------------
(* The pure functions *)

Elements(seq) == {seq[k] : k \in 1..Len(seq)}

\* C7: a season of the input is in the result of filterSeasonsByRange exactly
\* when a <= startYear <= b, the result holds nothing else, and an input that
\* is empty or not an array gives the empty list.
C7_FilterCorrect ==
    call.fn = "filterSeasonsByRange" =>
        IF ~call.arg.isArray \/ call.arg.items = << >>
        THEN call.ret = << >>
        ELSE /\ \A S \in Elements(call.arg.items) :
                   S \in Elements(call.ret) <=> (call.a <= S.startYear /\ S.startYear <= call.b)
             /\ Elements(call.ret) \subseteq Elements(call.arg.items)

\* a season whose startYear is the upper end of the range was kept and another one dropped
C7_Witness ==
    /\ call.fn = "filterSeasonsByRange"
    /\ call.a < call.b
    /\ \E S \in Elements(call.ret) : S.startYear = call.b
    /\ \E S \in Elements(call.arg.items) : S.startYear > call.b
    /\ Len(call.ret) < Len(call.arg.items)

\* C8: the bounds cover every record's cumulativeSnowfall and the day of every
\* record with snowfall, and always 0 <= minDayOfSeason <= maxDayOfSeason <= 365.
C8_BoundsCoverData ==
    call.fn = "getAxisBounds" =>
        /\ 0 <= call.ret.minDayOfSeason
        /\ call.ret.minDayOfSeason <= call.ret.maxDayOfSeason
        /\ call.ret.maxDayOfSeason <= 365
        /\ call.arg.isArray =>
              \A r \in RecordsOf(call.arg.items) :
                 /\ call.ret.maxCumulative >= r.cumulativeSnowfall
                 /\ r.dailySnowfall > 0 =>
                       /\ call.ret.minDayOfSeason <= r.dayOfSeason
                       /\ r.dayOfSeason <= call.ret.maxDayOfSeason

\* two seasons, the snow days and the largest cumulative value in the second
C8_Witness ==
    /\ call.fn = "getAxisBounds"
    /\ call.arg.isArray /\ Len(call.arg.items) = 2
    /\ RecordsOf(<<call.arg.items[1]>>) = {Rec(200, 1, 5)}
    /\ RecordsOf(<<call.arg.items[2]>>) = {Rec(0, 2, 3), Rec(150, 0, 9)}
    /\ call.ret = [minDayOfSeason |-> 0, maxDayOfSeason |-> 200, maxCumulative |-> 9]

\* C9: maxCumulative is the largest cumulativeSnowfall of the given seasons'
\* records (0 without records); minDayOfSeason and maxDayOfSeason are the
\* smallest and largest dayOfSeason among records with snowfall, 0 and 365
\* when there is none.
C9_BoundsExact ==
    call.fn = "getAxisBounds" =>
        LET seasons == IF call.arg.isArray THEN call.arg.items ELSE << >>
        IN /\ call.ret.maxCumulative =
                 SetMax({r.cumulativeSnowfall : r \in RecordsOf(seasons)} \cup {0})
           /\ call.ret.minDayOfSeason =
                 IF SnowDays(seasons) = {} THEN 0 ELSE SetMin(SnowDays(seasons))
           /\ call.ret.maxDayOfSeason =
                 IF SnowDays(seasons) = {} THEN 365 ELSE SetMax(SnowDays(seasons))

\* records without snowfall lie outside the snow days and are not counted
C9_Witness ==
    /\ call.fn = "getAxisBounds"
    /\ call.arg.isArray /\ Len(call.arg.items) = 2
    /\ \E r \in RecordsOf(call.arg.items) : r.dailySnowfall = 0 /\ r.dayOfSeason = 150
    /\ \E r \in RecordsOf(call.arg.items) : r.dailySnowfall = 0 /\ r.dayOfSeason = 365
    /\ call.ret = [minDayOfSeason |-> 200, maxDayOfSeason |-> 200, maxCumulative |-> 9]

DailyFns == {"data-processor.calculateDailySnowfall", "snowfall-calculations.calculateDailySnowfall"}

AllDailyFns == DailyFns \cup {"fetch-snotel-data.calculateDailySnowfall"}

\* C11: every implementation of calculateDailySnowfall returns 0 as the first
\* element for every non-empty depth sequence, so that all implementations
\* agree on the same depths.
C11_FirstDayZero ==
    (call.fn \in AllDailyFns /\ call.arg.isArray /\ Len(call.arg.items) > 0) =>
        call.ret[1] = 0

CumulativeFns ==
    {"data-processor.calculateCumulative", "snowfall-calculations.calculateCumulative",
     "fetch-snotel-data.calculateCumulative"}

\* daily[1] + ... + daily[i]
RECURSIVE SumOfFirst(_, _)
SumOfFirst(daily, i) == IF i = 0 THEN 0 ELSE SumOfFirst(daily, i - 1) + daily[i]

\* C12: for non-negative daily values the cumulative series has the length of
\* the input, element i is the sum of the daily values up to and including i,
\* the series never decreases and is never negative, and its last element is
\* the total of all daily values.
C12_RunningSum ==
    (call.fn \in CumulativeFns /\ call.arg.isArray) =>
        LET daily == call.arg.items
            n == Len(daily)
        IN /\ Len(call.ret) = n
           /\ \A i \in 1..n : call.ret[i] = SumOfFirst(daily, i)
           /\ \A i \in 1..n : call.ret[i] >= 0
           /\ \A i \in 2..n : call.ret[i] >= call.ret[i - 1]
           /\ n > 0 => call.ret[n] = SumOfFirst(daily, n)

\* snow on the first and the last of three days
C12_Witness ==
    /\ call.fn \in CumulativeFns
    /\ call.arg.isArray /\ Len(call.arg.items) = 3
    /\ call.arg.items[1] > 0 /\ call.arg.items[2] = 0 /\ call.arg.items[3] > 0
    /\ call.ret[2] = call.ret[1] /\ call.ret[3] > call.ret[2]

\* the start year of the ski season (August 1 to July 31) holding month m of year y
SeasonStartYear(y, m) == IF m >= 8 THEN y ELSE y - 1

\* whole days from the first of month m1 of year y1 to the first of month m2 of year y2
RECURSIVE DaysBetweenMonths(_, _, _, _)
DaysBetweenMonths(y1, m1, y2, m2) ==
    IF y1 = y2 /\ m1 = m2 THEN 0
    ELSE DaysInMonth(y1, m1)
         + (IF m1 = 12 THEN DaysBetweenMonths(y1 + 1, 1, y2, m2)
            ELSE DaysBetweenMonths(y1, m1 + 1, y2, m2))

DaysSinceAugust1(y, m, d) == DaysBetweenMonths(SeasonStartYear(y, m), 8, y, m) + d - 1

\* C14: the season of a date starts in the date's year for August to December
\* and in the year before otherwise; dayOfSeason is the whole number of days
\* from August 1 of that start year to the date, so August 1 gives 0, July 31
\* gives 364 or 365 and every dayOfSeason lies in 0..365.
C14_SeasonDay ==
    LET y == call.arg.y
        m == call.arg.m
        d == call.arg.d
    IN /\ call.fn = "getSkiSeason" =>
              ParseInt(SplitDash(call.ret)[1]) = Finite(SeasonStartYear(y, m))
       /\ call.fn = "getDayOfSeason" =>
              /\ call.ret = Finite(DaysSinceAugust1(y, m, d))
              /\ call.ret.v \in 0..365
              /\ (m = 8 /\ d = 1) => call.ret.v = 0
              /\ (m = 7 /\ d = 31) => call.ret.v \in {364, 365}

\* C17: parseSnowfall gives 0 for a field that is absent, empty, the trace
\* marker T or not a number, 0 for a negative number, and the number read
\* otherwise; the result is never negative.
C17_ParseSnowfall ==
    call.fn = "parseSnowfall" =>
        /\ call.ret >= 0
        /\ call.arg.kind \in {"absent", "empty", "trace", "text"} => call.ret = 0
        /\ (call.arg.kind = "number" /\ call.arg.amount < 0) => call.ret = 0
        /\ (call.arg.kind = "number" /\ call.arg.amount >= 0) => call.ret = call.arg.amount

\* a negative numeral was clamped
C17_Witness ==
    /\ call.fn = "parseSnowfall"
    /\ call.arg.kind = "number" /\ call.arg.amount < 0
    /\ call.ret = 0

\* the record lists of the seasons an aggregator run emitted
EmittedSeasons ==
    IF call.fn = "processNoaaData" THEN [s \in 1..Len(call.ret) |-> call.ret[s].dailyData]
    ELSE IF call.fn = "generateSeasonData" THEN <<call.ret>>
    ELSE << >>

\* the cumulative value of the record before record i of a season, 0 for the first
PreviousCumulative(dailyData, i) == IF i = 1 THEN 0 ELSE dailyData[i - 1].cumulativeSnowfall

\* C13: in every season the aggregator emits, with the amounts as fixed-point
\* decimals and after the code's rounding to one decimal, each record has
\* cumulative[i] = cumulative[i-1] + daily[i] (cumulative[-1] = 0) and daily[i] >= 0.
C13_RecordInvariant ==
    \A s \in 1..Len(EmittedSeasons) :
        \A i \in 1..Len(EmittedSeasons[s]) :
            LET record == EmittedSeasons[s][i]
            IN /\ record.dailySnowfall >= 0
               /\ record.cumulativeSnowfall
                    = PreviousCumulative(EmittedSeasons[s], i) + record.dailySnowfall

GoodRowIndices == {k \in 1..Len(call.arg.rows) : call.arg.rows[k].kind = "good"}

RECURSIVE CountRecords(_)
CountRecords(seasons) ==
    IF seasons = << >> THEN 0 ELSE Len(Head(seasons).dailyData) + CountRecords(Tail(seasons))

\* C15: rows with too few columns or a malformed date are skipped one by one
\* and never abort the run; no emitted record or season comes from such a row
\* (every emitted season has a valid integer startYear), the well-formed rows
\* are still aggregated, and with no valid row the season list is empty.
C15_MalformedSkipped ==
    call.fn = "processNoaaData" =>
        /\ \A s \in 1..Len(call.ret) : ~call.ret[s].startYear.nan
        /\ \A s \in 1..Len(call.ret) :
               \A i \in 1..Len(call.ret[s].dailyData) :
                   \E k \in GoodRowIndices :
                       call.arg.rows[k].dateStr = call.ret[s].dailyData[i].date
        /\ CountRecords(call.ret) = Cardinality(GoodRowIndices)
        /\ GoodRowIndices = {} => call.ret = << >>

\* year, month and day of a YYYY-MM-DD text as one number that orders dates
DateOrdinal(text) ==
    10000 * DigitsValue(SubSeq(text, 1, 4)) + 100 * DigitsValue(SubSeq(text, 6, 7))
        + DigitsValue(SubSeq(text, 9, 10))

RecordsDated(dailyData, text) == {i \in 1..Len(dailyData) : dailyData[i].date = text}

\* C16: the emitted seasons are in strictly ascending startYear order, the
\* records of each season are in ascending date order whatever the order of
\* the input rows, and every input record is in exactly one season, the one
\* its date maps to.
C16_OutputOrder ==
    call.fn = "processNoaaData" =>
        /\ \A s, t \in 1..Len(call.ret) :
               s < t => /\ ~call.ret[s].startYear.nan
                        /\ ~call.ret[t].startYear.nan
                        /\ call.ret[s].startYear.v < call.ret[t].startYear.v
        /\ \A s \in 1..Len(call.ret) :
               ~call.ret[s].startYear.nan =>
                   \A i, j \in 1..Len(call.ret[s].dailyData) :
                       i < j => DateOrdinal(call.ret[s].dailyData[i].date)
                                    <= DateOrdinal(call.ret[s].dailyData[j].date)
        /\ \A k \in GoodRowIndices :
               LET row == call.arg.rows[k]
                   same == {j \in GoodRowIndices : call.arg.rows[j].dateStr = row.dateStr}
               IN \A s \in 1..Len(call.ret) :
                      Cardinality(RecordsDated(call.ret[s].dailyData, row.dateStr))
                          = IF call.ret[s].startYear = Finite(SeasonStartYear(row.y, row.m))
                            THEN Cardinality(same) ELSE 0

\* C18: with two or more seasons the colour of index i has the hue and
\* saturation of the colour of index i + 1 and a strictly lower lightness, so
\* the colours are pairwise distinct, index 0 is the darkest and the last
\* index the lightest.
C18_Gradient ==
    (call.fn = "palette" /\ call.arg.total >= 2) =>
        LET n == call.arg.total
        IN /\ \A i \in 1..(n - 1) :
                  /\ call.ret[i].fmt = "hsl" /\ call.ret[i + 1].fmt = "hsl"
                  /\ call.ret[i].h = call.ret[i + 1].h
                  /\ call.ret[i].s = call.ret[i + 1].s
                  /\ RatLess(Lightness(call.ret[i]), Lightness(call.ret[i + 1]))
           /\ \A i, j \in 1..n : i # j => call.ret[i] # call.ret[j]
           /\ \A i \in 2..n : RatLess(Lightness(call.ret[1]), Lightness(call.ret[i]))
           /\ \A i \in 1..(n - 1) : RatLess(Lightness(call.ret[i]), Lightness(call.ret[n]))

\* a palette of at least three colours
C18_Witness ==
    /\ call.fn = "palette" /\ call.arg.total >= 3
    /\ RatLess(Lightness(call.ret[1]), Lightness(call.ret[2]))
    /\ RatLess(Lightness(call.ret[2]), Lightness(call.ret[3]))

\* C19: with two or more seasons, for every integer index, negative or past
\* the last season included, the colour returned has a lightness between
\* that of index 0 and that of the last index, as if the index were clamped.
C19_IndexClamped ==
    (call.fn = "getSeasonColor" /\ call.arg.total >= 2) =>
        /\ call.ret.fmt = "hsl"
        /\ ~RatLess(Lightness(call.ret), Lightness(getSeasonColor(0, call.arg.total)))
        /\ ~RatLess(Lightness(getSeasonColor(call.arg.total - 1, call.arg.total)),
                    Lightness(call.ret))

\* the character of the decimal digit of n at the place of 10^k
DigitAt(n, k) == DigitChar[((n \div (10 ^ k)) % 10) + 1]

\* C20: for an integer start year Y in 1000..9999 the label is the four
\* digits of Y, a hyphen and (Y + 1) mod 100 written with two digits, as in
\* 2023-24, 1999-00, 2009-10 and 2099-00.
C20_LabelFormat ==
    (call.fn = "formatSeasonLabel" /\ call.arg = Num(call.arg.v) /\ call.arg.v \in 1000..9999) =>
        LET Y == call.arg.v
            E == (Y + 1) % 100
        IN call.ret = <<DigitAt(Y, 3), DigitAt(Y, 2), DigitAt(Y, 1), DigitAt(Y, 0), "-",
                        DigitAt(E, 1), DigitAt(E, 0)>>

\* the end year crosses a century: 1999 gives 1999-00
C20_Witness ==
    /\ call.fn = "formatSeasonLabel"
    /\ call.arg = Num(1999)
    /\ call.ret = <<"1", "9", "9", "9", "-", "0", "0">>

\* C21: formatSeasonLabel never throws, and for every input that is not an
\* integer year in 1000..9999 - a string, null, undefined, NaN, an infinity,
\* a non-integer number, a year below 1000 or above 9999 - it returns the
\* sentinel Invalid.
C21_InvalidInput ==
    (call.fn = "formatSeasonLabel" /\ ~(call.arg = Num(call.arg.v) /\ call.arg.v \in 1000..9999)) =>
        call.ret = InvalidLabel

-----------------------------------------------------------------------------
(* The slider *)

C22_AppBounds ==
    (appState.isLoaded /\ appState.allSeasons # << >>) =>
        /\ \A k \in 1..Len(appState.allSeasons) :
              /\ sliderState.minYear <= appState.allSeasons[k].startYear
              /\ appState.allSeasons[k].startYear <= sliderState.maxYear
        /\ \E k \in 1..Len(appState.allSeasons) :
              sliderState.minYear = appState.allSeasons[k].startYear
        /\ \E k \in 1..Len(appState.allSeasons) :
              sliderState.maxYear = appState.allSeasons[k].startYear
        /\ getSliderRange(sliderState) =
              [start |-> sliderState.minYear, end |-> sliderState.maxYear]

\* a setSliderRange call on the initialised slider
SetRangeCalled == call.fn = "setSliderRange" /\ sliderState.container

\* its arguments satisfy minYear <= start <= end <= maxYear
ValidRangeArgs ==
    /\ sliderState.minYear <= call.arg[1]
    /\ call.arg[1] <= call.arg[2]
    /\ call.arg[2] <= sliderState.maxYear

\* C23: for minYear <= start <= end <= maxYear, setSliderRange(start, end)
\* makes getSliderRange() return exactly {start, end} and calls onChange
\* exactly once, with (start, end), also when the range equals the current one
C23_ValidRangeApplied ==
    (SetRangeCalled /\ ValidRangeArgs) =>
        /\ getSliderRange(sliderState) = [start |-> call.arg[1], end |-> call.arg[2]]
        /\ call.ret = <<call.arg>>

\* a valid range equal to the one already selected was set and reported
C23_Witness ==
    /\ SetRangeCalled /\ ValidRangeArgs
    /\ call.arg = <<call.a, call.b>>
    /\ call.arg[1] < call.arg[2]
    /\ call.ret = <<call.arg>>

\* C24: setSliderRange with start or end outside [minYear, maxYear], or with
\* start > end, leaves the current range as it was and makes no call to
\* onChange
C24_InvalidRangeIgnored ==
    (SetRangeCalled /\ ~ValidRangeArgs) =>
        /\ getSliderRange(sliderState) = [start |-> call.a, end |-> call.b]
        /\ call.ret = << >>

\* a reversed pair of years inside the bounds was rejected
C24_Witness ==
    /\ SetRangeCalled
    /\ call.arg[1] > call.arg[2]
    /\ call.arg[1] <= sliderState.maxYear /\ call.arg[2] >= sliderState.minYear
    /\ getSliderRange(sliderState) = [start |-> call.a, end |-> call.b]
    /\ call.ret = << >>

\* the range lies within the bounds and is ordered
RangeWithinBounds(start, end) ==
    /\ sliderState.minYear <= start
    /\ start <= end
    /\ end <= sliderState.maxYear

\* C25: after initSlider with minYear <= maxYear, whatever slider events
\* follow (setSliderRange, handle drags, track clicks at any pointer position),
\* minYear <= currentStart <= currentEnd <= maxYear holds and so does every
\* (start, end) passed to onChange
C25_RangeWithinBounds ==
    (sliderState.container /\ sliderState.minYear <= sliderState.maxYear) =>
        /\ RangeWithinBounds(sliderState.currentStart, sliderState.currentEnd)
        /\ \A k \in 1..Len(call.ret) : RangeWithinBounds(call.ret[k][1], call.ret[k][2])

\* C25, for the handle drags alone: a drag keeps the range within the bounds
C25_DragWithinBounds ==
    (call.fn = "handleDrag" /\ sliderState.minYear <= sliderState.maxYear
        /\ sliderState.minYear <= call.a /\ call.a <= call.b /\ call.b <= sliderState.maxYear) =>
        /\ RangeWithinBounds(sliderState.currentStart, sliderState.currentEnd)
        /\ \A k \in 1..Len(call.ret) : RangeWithinBounds(call.ret[k][1], call.ret[k][2])

-----------------------------------------------------------------------------
(* The recorded tap-lock and the drawn chart *)

\* C26: on a chart with at least two series, after any interleaving of hover,
\* hover-leave, tap and chart-update events, whenever highlightState.isToggled
\* is true the series at highlightedDatasetIndex is drawn emphasised and no
\* other series is
C26_ToggledIsDrawn ==
    (appState.chart /\ Len(chart.datasets) >= 2 /\ highlightState.isToggled) =>
        /\ highlightState.highlightedDatasetIndex \in DatasetIndices
        /\ Emphasised(highlightState.highlightedDatasetIndex)
        /\ \A k \in DatasetIndices \ {highlightState.highlightedDatasetIndex} : ~Emphasised(k)

-----------------------------------------------------------------------------
(* Initialisation *)

\* C27: isLoaded is true only once the data is loaded and the slider and the
\* chart exist, so isLoaded implies that the chart is not null; while isLoaded
\* is false (before init completes, or after it failed while loading,
\* validating, creating the slider or creating the chart) onSliderChange
\* leaves filteredSeasons and the chart as they are
C27_LoadedGuard ==
    /\ [](appState.isLoaded =>
            /\ appState.chart
            /\ sliderState.container
            /\ appState.allSeasons \in LoadableSeasonLists)
    /\ [][(lastOp'.op = "onSliderChange" /\ ~appState.isLoaded) =>
            /\ appState' = appState
            /\ chart' = chart
            /\ highlightState' = highlightState]_vars

\* init failed after the seasons were assigned, and a slider change that
\* excludes the first season was ignored
C27_Witness ==
    /\ lastOp.op = "onSliderChange"
    /\ ~appState.isLoaded
    /\ Len(appState.allSeasons) = 2
    /\ lastOp.a > appState.allSeasons[1].startYear
    /\ lastOp.a <= lastOp.b
    /\ appState.filteredSeasons = appState.allSeasons
    /\ chart = NoChart

-----------------------------------------------------------------------------
(* A reversed range *)

\* the axis limits of the default bounds {0, 365, 0}
DefaultScales == [xMin |-> 0, xMax |-> 365, yMax |-> 10]

\* C28: for every list of seasons and every a > b, filterSeasonsByRange
\* (seasons, a, b) is the empty list (the bounds are never swapped), and the
\* chart updated with it shows no series and has the default axis limits
C28_ReversedRangeEmpty ==
    (call.fn \in {"filterSeasonsByRange", "updateChart"} /\ call.a > call.b) =>
        /\ call.ret = << >>
        /\ call.fn = "updateChart" => (chart.datasets = << >> /\ chart.scales = DefaultScales)

\* a reversed range around the year of a listed season emptied the chart
C28_Witness ==
    /\ call.fn = "updateChart"
    /\ call.a > call.b
    /\ call.arg.isArray
    /\ \E k \in 1..Len(call.arg.items) :
          call.b <= call.arg.items[k].startYear /\ call.arg.items[k].startYear <= call.a
    /\ chart.datasets = << >>
    /\ chart.scales = DefaultScales

-----------------------------------------------------------------------------
(* The axis limits *)

\* C29: for every season set with dayOfSeason in 0..365, the limits written
\* by initChart and by updateChart do not clip the bounds of the data:
\* xMin <= minDayOfSeason, xMax >= maxDayOfSeason, 0 <= xMin <= xMax <= 365,
\* yMax >= maxCumulative and yMax >= 10, with xMin = max(0, min - 10),
\* xMax = min(365, max + 10), yMax = max(10, Math.ceil(maxCumulative * 1.1)),
\* which is never below 110% of maxCumulative; and updateChart writes the
\* limits that initChart wrote for the same seasons
C29_AxisLimits ==
    call.fn \in {"initChart", "updateChart"} =>
        LET bounds == getAxisBounds(Arr(call.arg))
            scales == chart.scales
        IN /\ scales.xMin <= bounds.minDayOfSeason
           /\ scales.xMax >= bounds.maxDayOfSeason
           /\ 0 <= scales.xMin /\ scales.xMin <= scales.xMax /\ scales.xMax <= 365
           /\ scales.yMax >= bounds.maxCumulative
           /\ scales.yMax >= 10
           /\ scales.xMin = Max(0, bounds.minDayOfSeason - 10)
           /\ scales.xMax = Min(365, bounds.maxDayOfSeason + 10)
           /\ scales.yMax = Max(10, CeilTenPercent(bounds.maxCumulative))
           /\ 10 * scales.yMax >= 11 * bounds.maxCumulative
           /\ scales.yMax <= Max(10, CeilDiv(11 * bounds.maxCumulative, 10) + 1)
           /\ scales = call.ret

\* both paddings were cut at the ends of the season and the chart was updated
C29_Witness ==
    /\ call.fn = "updateChart"
    /\ getAxisBounds(Arr(call.arg)).minDayOfSeason \in 1..9
    /\ getAxisBounds(Arr(call.arg)).maxDayOfSeason > 355
    /\ getAxisBounds(Arr(call.arg)).maxCumulative > 100
    /\ chart.scales.xMin = 0
    /\ chart.scales.xMax = 365
    /\ chart.scales = call.ret

-----------------------------------------------------------------------------
(* A failed load *)

\* the message the kind of failure calls for
MessageForKind(error) ==
    CASE error.kind = "timeout" -> TimedOutMessage
      [] error.kind = "http404" -> NotFoundMessage
      [] error.kind = "json" -> InvalidJsonMessage
      [] OTHER -> OtherFailureMessage(error.message)

\* C30: when loading the data file fails, loadSnowfallData rejects with the
\* message of the failure's kind (timeout or abort: 'Request timed out after 30
\* seconds...', HTTP 404: 'Data file not found (404)...', malformed JSON:
\* 'Invalid JSON data...', anything else: 'Failed to load data: <cause>'), and
\* init shows exactly that message with a retry button and leaves isLoaded false
C30_LoadFailureMessage ==
    call.fn = "loadSnowfallData" =>
        /\ call.ret = MessageForKind(call.arg)
        /\ page.error = call.ret
        /\ page.retry
        /\ ~appState.isLoaded

\* C30, what does hold: whatever loadSnowfallData rejects with is shown with
\* a retry button, and isLoaded stays false
C30_RejectionShown ==
    call.fn = "loadSnowfallData" =>
        /\ page.error = call.ret
        /\ page.retry
        /\ ~appState.isLoaded

====
